---------------------------- MODULE Spec2Model ----------------------------
(***************************************************************************)
(* Contact manager: the Database Manager (backend switching), the Adapter  *)
(* Factory and the four storage adapters (sqlite, mysql, postgres,         *)
(* mongodb), with the legacy file-backend helpers of crud.py.              *)
(*                                                                         *)
(* The specifications of the module come in two families:                 *)
(*   SpecManager, SpecFactory, SpecReconnect, SpecPreflight                *)
(*                - DatabaseManager / DatabaseFactory / settings /         *)
(*                  tracker / preflight                                    *)
(*   SpecAdapter and the other Spec* formulas                              *)
(*                - one adapter working on its backend's contacts store    *)
(***************************************************************************)
EXTENDS Integers, Sequences, FiniteSets, TLC

VARIABLES
    \* ---- Database Manager, settings, tracker (src/database/manager.py)
    mgrAdapter,       \* DatabaseManager._current_adapter (NoAdapter = None)
    mgrDbType,        \* DatabaseManager._current_db_type
    settingsDefault,  \* Settings.default_db_type
    envDbType,        \* os.environ['DB_TYPE'] ("unset" when absent)
    lastDbType,       \* app_state row 'last_db_type' of the tracker ("none" when absent)
    dbHealth,         \* db_health rows of the tracker: db_type -> 1 (healthy) / 0
    disposed,         \* serials of the adapters whose close_connection() completed
    nextSerial,       \* number of adapter objects constructed so far
    mgrLast,          \* the last manager call: its inputs and its outcome
    \* ---- one adapter and its backend (src/database/adapters/*.py)
    backend,          \* which adapter class is under test
    connected,        \* the adapter's client/engine object was initialised
    columns,          \* ordered column names of the contacts table (SQL backends)
    rows,             \* stored records in natural (insertion) order
    seq,              \* identifier sequence: sqlite_sequence / AUTO_INCREMENT / SERIAL / counters doc
    idIsPk,           \* the id column still is the auto-assigned primary key
    uniqueIdIndex,    \* the store enforces uniqueness of id (primary key / unique index)
    now,              \* backend clock, drives created_at / updated_at
    backupFile,       \* content of the backup artefact (NoBackup when none was taken)
    csvFile,          \* content of the exported CSV file (NoFile when none was written)
    shadowTable,      \* a table contacts_new exists in the file backend's database
    last              \* the last adapter call: its inputs and its outcome

mgrVars == <<mgrAdapter, mgrDbType, settingsDefault, envDbType, lastDbType,
             dbHealth, disposed, nextSerial, mgrLast>>
dbVars  == <<backend, connected, columns, rows, seq, idIsPk, uniqueIdIndex,
             now, backupFile, csvFile, shadowTable, last>>
vars    == <<mgrAdapter, mgrDbType, settingsDefault, envDbType, lastDbType,
             dbHealth, disposed, nextSerial, mgrLast,
             backend, connected, columns, rows, seq, idIsPk, uniqueIdIndex,
             now, backupFile, csvFile, shadowTable, last>>

---------------------------------------------------------------------------
(* Bounds of the model *)

\* adapter objects constructed in one behaviour
MaxAdapters == 3
\* records held by the store at once
MaxRows == 2
\* identifiers the sequence hands out before the model stops inserting
MaxSeq == 2
\* readings of the backend clock
MaxClock == 2

---------------------------------------------------------------------------
(* Adapter Factory and configuration *)

\* DatabaseFactory._adapters: identifier -> adapter class
AdapterRegistry ==
    [sqlite     |-> "SQLiteAdapter",
     mysql      |-> "MySQLAdapter",
     postgres   |-> "PostgreSQLAdapter",
     postgresql |-> "PostgreSQLAdapter",
     mongodb    |-> "MongoDBAdapter",
     mongo      |-> "MongoDBAdapter"]

RegisteredTypes == DOMAIN AdapterRegistry

\* DatabaseFactory._primary_types
PrimaryTypes == <<"sqlite", "mysql", "postgres", "mongodb">>

\* keys of DATABASE_CONFIGS
ConfiguredTypes == {"sqlite", "mysql", "postgres", "mongodb"}

\* identifiers a caller may pass: every registered one and an unknown one
RequestTypes == RegisteredTypes \cup {"oracle"}

\* config argument: None (resolve the default), a usable mapping, or an object
\* the adapter constructor cannot read (config.get raises)
ConfigArgs == {"None", "custom", "unusable"}

NoAdapter == [cls |-> "None", cfg |-> "None", serial |-> 0]

\* get_database_config(db_type)
get_database_config(dbType) ==
    IF dbType \notin ConfiguredTypes
    THEN [err |-> "ValueError", cfg |-> "None"]
    ELSE [err |-> "none", cfg |-> dbType]

\* DatabaseFactory.create_adapter(db_type, config): no connectivity probe
create_adapter(dbType, config, serial) ==
    IF dbType \notin RegisteredTypes
    THEN [err |-> "ValueError", adapter |-> NoAdapter]
    ELSE LET resolved == IF config = "None" THEN get_database_config(dbType)
                         ELSE [err |-> "none", cfg |-> config]
         IN  IF resolved.err # "none"
             THEN [err |-> resolved.err, adapter |-> NoAdapter]
             ELSE IF resolved.cfg = "unusable"
             THEN [err |-> "AttributeError", adapter |-> NoAdapter]
             ELSE [err |-> "none",
                   adapter |-> [cls |-> AdapterRegistry[dbType],
                                cfg |-> resolved.cfg, serial |-> serial]]

\* DatabaseFactory.create_with_test(db_type, config); probe is what
\* adapter.test_connection() answers (it never raises)
create_with_test(dbType, config, serial, probe) ==
    LET made == create_adapter(dbType, config, serial)
    IN  IF made.err # "none" THEN made
        ELSE IF ~probe THEN [err |-> "ConnectionError", adapter |-> NoAdapter]
        ELSE made

\* whether the call constructed an adapter object (successful or discarded)
Constructed(dbType, config) == create_adapter(dbType, config, 1).err = "none"

---------------------------------------------------------------------------
(* Database Manager *)

ExceptionKinds == {"ValueError", "ConnectionError", "AttributeError",
                   "TypeError", "NotImplementedError", "DbError"}

\* `except Exception` of switch_database catches only some kinds
CaughtBySwitchNarrow(kind) == kind = "ConnectionError"

\* `except Exception` of switch_database (manager.py:84)
CaughtBySwitch(kind) == kind \in ExceptionKinds

\* the tracker write is skipped when set_last_db_type raises and the failure aborts the switch
SwitchCommitsStrict(createErr, trackerRaises, closeRaises) ==
    createErr = "none" /\ ~trackerRaises /\ ~closeRaises

\* switch_database reaches `return True` (manager.py:58-82): the inner
\* try/except blocks swallow a tracker or close_connection failure
SwitchCommits(createErr, trackerRaises, closeRaises) ==
    createErr = "none"

\* the db_health table before any preflight wrote to it (state_tracker.py:49-58)
NoHealth == [t \in {} |-> 0]

\* adapter classes that define close_connection (hasattr test, manager.py:76)
HasCloseConnection(adapter) == adapter.cls = "MySQLAdapter"

\* DatabaseManager.switch_database(db_type, config)
SwitchDatabase(dbType, config, probe, trackerRaises, closeRaises) ==
    LET made     == create_with_test(dbType, config, nextSerial + 1, probe)
        ok       == SwitchCommits(made.err, trackerRaises, closeRaises)
        closes   == mgrAdapter # NoAdapter /\ HasCloseConnection(mgrAdapter)
        escaped  == IF made.err = "none" \/ CaughtBySwitch(made.err)
                    THEN "none" ELSE made.err
    IN  /\ nextSerial < MaxAdapters
        /\ nextSerial' = IF Constructed(dbType, config)
                         THEN nextSerial + 1 ELSE nextSerial
        /\ IF made.err = "none"
           THEN /\ mgrAdapter' = made.adapter
                /\ mgrDbType' = dbType
                /\ settingsDefault' = dbType
                /\ envDbType' = dbType
                /\ lastDbType' = IF ~trackerRaises THEN dbType ELSE lastDbType
                /\ disposed' = IF closes /\ ~closeRaises
                               THEN disposed \cup {mgrAdapter.serial}
                               ELSE disposed
           ELSE UNCHANGED <<mgrAdapter, mgrDbType, settingsDefault, envDbType,
                            lastDbType, disposed>>
        /\ mgrLast' = [op |-> "switch_database", dbType |-> dbType,
                       config |-> config,
                       probeOk |-> (Constructed(dbType, config) /\ probe),
                       trackerRaised |-> (made.err = "none" /\ trackerRaises),
                       closeRaised |-> (made.err = "none" /\ closes /\ closeRaises),
                       hadAdapter |-> (mgrAdapter # NoAdapter),
                       ret |-> ok, escaped |-> escaped]
        /\ UNCHANGED dbHealth
        /\ UNCHANGED dbVars

\* DatabaseManager.current_adapter: lazy construction, errors reach the caller
CurrentAdapter ==
    /\ nextSerial < MaxAdapters
    /\ LET made == create_adapter(mgrDbType, "None", nextSerial + 1)
       IN  /\ mgrAdapter' = IF mgrAdapter # NoAdapter THEN mgrAdapter
                            ELSE made.adapter
           /\ nextSerial' = IF mgrAdapter = NoAdapter /\ made.err = "none"
                            THEN nextSerial + 1 ELSE nextSerial
           /\ mgrLast' = [op |-> "current_adapter", dbType |-> mgrDbType,
                          config |-> "None", probeOk |-> FALSE,
                          trackerRaised |-> FALSE, closeRaised |-> FALSE,
                          hadAdapter |-> (mgrAdapter # NoAdapter),
                          ret |-> (mgrAdapter # NoAdapter \/ made.err = "none"),
                          escaped |-> IF mgrAdapter # NoAdapter THEN "none"
                                      ELSE made.err]
    /\ UNCHANGED <<mgrDbType, settingsDefault, envDbType, lastDbType, dbHealth,
                   disposed>>
    /\ UNCHANGED dbVars


InitManager ==
    /\ mgrAdapter = NoAdapter
    /\ envDbType \in {"unset", "mysql", "postgresql", "oracle"}
    /\ settingsDefault = (IF envDbType = "unset" THEN "sqlite" ELSE envDbType)
    /\ mgrDbType = settingsDefault
    /\ lastDbType \in {"none", "mongodb"}
    /\ dbHealth = NoHealth
    /\ disposed = {}
    /\ nextSerial = 0
    /\ mgrLast = [op |-> "init", dbType |-> mgrDbType, config |-> "None",
                  probeOk |-> FALSE, trackerRaised |-> FALSE,
                  closeRaised |-> FALSE, hadAdapter |-> FALSE,
                  ret |-> TRUE, escaped |-> "none"]

---------------------------------------------------------------------------
(* Preflight (src/preflight.py) and force_reconnect (src/database/manager.py) *)

\* DatabaseFactory.get_available_types(): the primary identifiers, no aliases
get_available_types == PrimaryTypes

\* DatabaseFactory.is_supported(db_type): membership in the registry
is_supported(dbType) == dbType \in RegisteredTypes

\* os.environ.get("DB_TYPE", "") : the empty string when the variable is absent
EnvGet(env) == IF env = "unset" THEN "" ELSE env

\* str.strip() on the values the environment variable takes here
Strip(s) == CASE s = " mysql " -> "mysql"
              [] s = " "       -> ""
              [] OTHER         -> s

\* health.get(t) == 1 : a missing record reads as None
RecordedHealthy(health, t) == t \in DOMAIN health /\ health[t] = 1

\* the override is taken as given, whatever the health map records for it
ChooseOverrideUnchecked(env, lastUsed, health) ==
    LET explicit == Strip(EnvGet(env))
    IN  IF explicit # "" THEN explicit
        ELSE IF lastUsed # "none" /\ RecordedHealthy(health, lastUsed) THEN lastUsed
        ELSE "sqlite"

\* preflight._choose_db(available, health), reading DB_TYPE and the tracker
choose_db(env, lastUsed, health) ==
    LET explicit == Strip(EnvGet(env))
    IN  IF explicit # "" /\ RecordedHealthy(health, explicit) THEN explicit
        ELSE IF lastUsed # "none" /\ RecordedHealthy(health, lastUsed) THEN lastUsed
        ELSE "sqlite"

\* health maps handed to _choose_db: any records over some of the backends
HealthMaps ==
    UNION {[D -> {0, 1}] : D \in SUBSET {"sqlite", "mysql", "mongodb"}}

\* one call of _choose_db on the current environment and tracker row
ChooseDb(health) ==
    /\ mgrLast' = [op |-> "_choose_db", health |-> health,
                   explicit |-> Strip(EnvGet(envDbType)), lastUsed |-> lastDbType,
                   ret |-> choose_db(envDbType, lastDbType, health),
                   escaped |-> "none"]
    /\ UNCHANGED <<mgrAdapter, mgrDbType, settingsDefault, envDbType, lastDbType,
                   dbHealth, disposed, nextSerial>>
    /\ UNCHANGED dbVars

\* preflight._test_db(db_type): create_with_test, any exception reads as unhealthy
test_db(dbType, serial, up) ==
    create_with_test(dbType, "None", serial, up[dbType]).err = "none"

\* set_db_health for every available type, then get_db_health_map (preflight.py:61-68)
HealthAfterTests(serial, up) ==
    [t \in (DOMAIN dbHealth) \cup ConfiguredTypes |->
        IF t \in ConfiguredTypes
        THEN (IF test_db(t, serial, up) THEN 1 ELSE 0)
        ELSE dbHealth[t]]

\* preflight.run_preflight_and_choose_db(); up[t] is what test_connection()
\* of backend t answers during this call, trackerRaises whether the write of
\* the last-used row fails
RunPreflight(up, trackerRaises) ==
    LET tested  == Len(get_available_types)
        health  == HealthAfterTests(nextSerial + 1, up)
        chosen  == choose_db(envDbType, lastDbType, health)
        switch  == ~trackerRaises /\ mgrDbType # chosen
        made    == create_with_test(chosen, "None", nextSerial + tested + 1,
                                    up[chosen])
        swapped == switch /\ made.err = "none"
        closes  == mgrAdapter # NoAdapter /\ HasCloseConnection(mgrAdapter)
    IN  /\ nextSerial < MaxAdapters
        /\ dbHealth' = health
        /\ envDbType' = chosen
        /\ settingsDefault' = chosen
        /\ lastDbType' = IF trackerRaises THEN lastDbType ELSE chosen
        /\ mgrDbType' = IF swapped THEN chosen ELSE mgrDbType
        /\ mgrAdapter' = IF swapped THEN made.adapter ELSE mgrAdapter
        /\ disposed' = IF swapped /\ closes
                       THEN disposed \cup {mgrAdapter.serial} ELSE disposed
        /\ nextSerial' = nextSerial + tested + (IF switch THEN 1 ELSE 0)
        /\ mgrLast' = [op |-> "run_preflight", up |-> up, ret |-> chosen,
                       switched |-> swapped,
                       escaped |-> IF trackerRaises THEN "DbError" ELSE "none"]
        /\ UNCHANGED dbVars

\* force_reconnect reaches `return True` whenever neither the construction
\* nor the probe raised (manager.py:121-123); the probe's answer is dropped
ReconnectReturns(made, probe) == made.err = "none"

\* DatabaseManager.force_reconnect(); probe is the answer of test_connection()
ForceReconnect(probe) ==
    LET made == create_adapter(mgrDbType, "None", nextSerial + 1)
    IN  /\ nextSerial < MaxAdapters
        /\ mgrAdapter' = IF made.err = "none" THEN made.adapter ELSE NoAdapter
        /\ nextSerial' = IF made.err = "none" THEN nextSerial + 1 ELSE nextSerial
        /\ mgrLast' = [op |-> "force_reconnect", dbType |-> mgrDbType,
                       probeOk |-> (made.err = "none" /\ probe),
                       constructErr |-> made.err,
                       hadAdapter |-> (mgrAdapter # NoAdapter),
                       before |-> mgrAdapter,
                       ret |-> ReconnectReturns(made, probe),
                       escaped |-> "none"]
        /\ UNCHANGED <<mgrDbType, settingsDefault, envDbType, lastDbType,
                       dbHealth, disposed>>
        /\ UNCHANGED dbVars

\* a caller's DatabaseFactory.create_adapter(db_type, config)
CreateAdapter(dbType, config) ==
    LET made == create_adapter(dbType, config, nextSerial + 1)
    IN  /\ nextSerial < MaxAdapters
        /\ nextSerial' = IF made.err = "none" THEN nextSerial + 1 ELSE nextSerial
        /\ mgrLast' = [op |-> "create_adapter", dbType |-> dbType,
                       config |-> config, probed |-> FALSE, probeOk |-> FALSE,
                       ret |-> made.adapter, escaped |-> made.err]
        /\ UNCHANGED <<mgrAdapter, mgrDbType, settingsDefault, envDbType,
                       lastDbType, dbHealth, disposed>>
        /\ UNCHANGED dbVars

\* a caller's DatabaseFactory.create_with_test(db_type, config)
CreateWithTest(dbType, config, probe) ==
    LET made == create_with_test(dbType, config, nextSerial + 1, probe)
    IN  /\ nextSerial < MaxAdapters
        /\ nextSerial' = IF Constructed(dbType, config)
                         THEN nextSerial + 1 ELSE nextSerial
        /\ mgrLast' = [op |-> "create_with_test", dbType |-> dbType,
                       config |-> config,
                       probed |-> Constructed(dbType, config),
                       probeOk |-> (Constructed(dbType, config) /\ probe),
                       ret |-> made.adapter, escaped |-> made.err]
        /\ UNCHANGED <<mgrAdapter, mgrDbType, settingsDefault, envDbType,
                       lastDbType, dbHealth, disposed>>
        /\ UNCHANGED dbVars

---------------------------------------------------------------------------
(* Values stored in a contacts store *)

\* SQL NULL / Python None in a text column
Null == "NULL"
\* SQL NULL / Python None in the id column (identifiers start at 1)
NoId == 0
\* a timestamp the backend derives from its clock reading n
Ts(n) == "t" \o ToString(n)
\* a timestamp the caller passes in
ClientTs == "client"
\* column default that evaluates the clock at insert time (NOW() AT TIME ZONE 'UTC')
DefaultNow == "now()"
\* key that keeps a document's field order (BSON documents are ordered)
KeyOrder == "_keys"

Backends == {"sqlite", "mysql", "postgres", "mongodb"}

\* SchemaManager.REQUIRED_COLUMNS
REQUIRED_COLUMNS == <<"id", "name", "phone", "email", "created_at", "updated_at">>

Range(s) == {s[i] : i \in 1..Len(s)}
Col(n, d) == [name |-> n, dflt |-> d]
ColNames(cols) == [i \in 1..Len(cols) |-> cols[i].name]
ColSet(cols) == {cols[i].name : i \in 1..Len(cols)}
\* dict.update: the right mapping wins
Merge(f, g) == [k \in DOMAIN f \cup DOMAIN g |-> IF k \in DOMAIN g THEN g[k] ELSE f[k]]
\* a mapping restricted to some keys
Restrict(f, keys) == [k \in DOMAIN f \cap keys |-> f[k]]
\* the fields of a stored record
Fields(r) == DOMAIN r \ {KeyOrder}
Ids(rs) == {rs[i].id : i \in 1..Len(rs)}
MaxOf(S) == IF S = {} THEN 0 ELSE CHOOSE m \in S : \A x \in S : x <= m

\* columns created by each adapter's create_table()
SqliteColumns ==
    <<Col("id", Null), Col("name", Null), Col("phone", Null), Col("email", Null),
      Col("age", "0"), Col("address", "Unknown"), Col("department", "General"),
      Col("category", "General"), Col("tags", "")>>
MysqlColumns ==
    <<Col("id", Null), Col("name", Null), Col("phone", Null), Col("email", Null)>>
PostgresColumns ==
    <<Col("id", Null), Col("name", Null), Col("phone", Null), Col("email", Null),
      Col("created_at", DefaultNow), Col("updated_at", DefaultNow)>>

CreatedColumns(b) ==
    CASE b = "sqlite"   -> SqliteColumns
      [] b = "mysql"    -> MysqlColumns
      [] b = "postgres" -> PostgresColumns
      [] OTHER          -> <<>>

\* no CSV file has been written
NoFile == [written |-> FALSE, header |-> <<>>, lines |-> <<>>, contacts |-> <<>>]

NoBackup == [taken |-> FALSE, rows |-> <<>>, columns |-> <<>>, seq |-> 0, idIsPk |-> TRUE,
             shadow |-> FALSE]

\* the store right after create_table() on an empty backend
InitAdapter ==
    /\ backend \in Backends
    /\ connected \in (IF backend \in {"mysql", "mongodb"} THEN BOOLEAN ELSE {TRUE})
    /\ columns = CreatedColumns(backend)
    /\ rows = <<>>
    /\ seq = 0
    /\ idIsPk = TRUE
    /\ uniqueIdIndex = TRUE
    /\ now = 1
    /\ backupFile = NoBackup
    /\ csvFile = NoFile
    /\ shadowTable = FALSE
    /\ last = [op |-> "create_table", arg |-> <<>>, id |-> NoId,
               err |-> "none", ret |-> "None"]

---------------------------------------------------------------------------
(* add_contact *)

\* value a column takes when the INSERT does not name it
DefaultValue(col) == IF col.dflt = DefaultNow THEN Ts(now) ELSE col.dflt

\* identifier the table assigns to a row inserted into the store st
NextSqlIdOf(st) ==
    IF ~idIsPk THEN NoId
    ELSE IF backend = "postgres" THEN st.seq + 1
    ELSE MaxOf(Ids(st.rows) \cup {st.seq}) + 1

\* identifier the table assigns to an inserted row
NextSqlId == NextSqlIdOf([rows |-> rows, seq |-> seq])

\* INSERT INTO contacts (<given keys>) VALUES (...) on the store st
SqlInsertInto(st, given) ==
    LET newId == NextSqlIdOf(st)
        row   == [c \in ColSet(columns) |->
                    IF c = "id" THEN newId
                    ELSE IF c \in DOMAIN given THEN given[c]
                    ELSE DefaultValue(CHOOSE col \in Range(columns) : col.name = c)]
    IN  IF idIsPk /\ "name" \in ColSet(columns) /\ row.name = Null
        THEN [err |-> "DbError", rows |-> st.rows,
              seq |-> IF backend = "postgres" THEN st.seq + 1 ELSE st.seq]
        ELSE IF idIsPk /\ newId \in Ids(st.rows)
        THEN [err |-> "DbError", rows |-> st.rows, seq |-> newId]
        ELSE [err |-> "none", rows |-> Append(st.rows, row),
              seq |-> IF idIsPk THEN newId ELSE st.seq]

\* INSERT INTO contacts (<given keys>) VALUES (...)
SqlInsert(given) == SqlInsertInto([rows |-> rows, seq |-> seq], given)

\* the rejection comes after the identifier was drawn from the sequence
RejectedAfterDraw(kind) == [err |-> kind, rows |-> rows, seq |-> seq + 1]

\* `raise` before the backend is touched: nothing stored, no identifier drawn
Rejected(kind) == [err |-> kind, rows |-> rows, seq |-> seq]

\* SQLiteAdapter.add_contact(name, phone, email): a fixed signature
SqliteAddContact(fields) ==
    IF DOMAIN fields # {"name", "phone", "email"}
    THEN Rejected("TypeError")
    ELSE SqlInsert(fields)

\* MySQLAdapter.add_contact(**fields)
MysqlAddContact(fields) ==
    IF "name" \notin DOMAIN fields THEN Rejected("ValueError")
    ELSE IF ~connected THEN Rejected("ConnectionError")
    ELSE LET valid == ColSet(columns) \ {"id"}
             insert_fields == Restrict(fields, valid)
         IN  IF DOMAIN insert_fields = {} THEN Rejected("ValueError")
             ELSE SqlInsert(insert_fields)

\* PostgreSQLAdapter.add_contact(**fields)
PostgresAddContact(fields) ==
    IF "name" \notin DOMAIN fields THEN Rejected("ValueError")
    ELSE LET valid == ColSet(columns) \ {"id"}
             insert_fields == Restrict(fields, valid \ {"created_at", "updated_at"})
         IN  IF DOMAIN insert_fields = {} THEN Rejected("ValueError")
             ELSE SqlInsert(insert_fields)

\* keys of a new document in dict order: id, created_at, updated_at, then the
\* caller's fields (argOrder is the order the caller wrote them in)
NewDocKeys(argOrder) ==
    <<"id", "created_at", "updated_at">> \o
    SelectSeq(argOrder, LAMBDA k : k \notin {"id", "created_at", "updated_at"})

\* _get_next_id() increments the counter; the document is the identifier, the
\* timestamps, then the caller's fields over them; insert_one on the store st
MongoInsertInto(st, fields, argOrder) ==
    LET contact_id == st.seq + 1
        base == [id |-> contact_id, created_at |-> Ts(now), updated_at |-> Ts(now)]
        contact == Merge(Merge(base, fields), [_keys |-> NewDocKeys(argOrder)])
    IN  IF uniqueIdIndex /\ contact.id \in Ids(st.rows)
        THEN [err |-> "DbError", rows |-> st.rows, seq |-> contact_id]
        ELSE [err |-> "none", rows |-> Append(st.rows, contact), seq |-> contact_id]

\* MongoDBAdapter.add_contact(**fields)
MongoAddContact(fields, argOrder) ==
    IF "name" \notin DOMAIN fields THEN Rejected("ValueError")
    ELSE IF ~connected THEN Rejected("ConnectionError")
    ELSE MongoInsertInto([rows |-> rows, seq |-> seq], fields, argOrder)

\* field mappings callers pass to add_contact, each with the order of its keys
AddInputs ==
    { [f |-> [name |-> "Ab", phone |-> "a", email |-> "b"], o |-> <<"name", "phone", "email">>],
      [f |-> [name |-> "Ab"], o |-> <<"name">>],
      [f |-> [phone |-> "a", email |-> "b"], o |-> <<"phone", "email">>],
      [f |-> [name |-> "Ab", nick |-> "z"], o |-> <<"name", "nick">>],
      [f |-> [name |-> "Ab", created_at |-> ClientTs, updated_at |-> ClientTs],
       o |-> <<"name", "created_at", "updated_at">>],
      [f |-> [name |-> "Ab", id |-> NoId], o |-> <<"name", "id">>] }

AddOutcome(in) ==
    CASE backend = "sqlite"   -> SqliteAddContact(in.f)
      [] backend = "mysql"    -> MysqlAddContact(in.f)
      [] backend = "postgres" -> PostgresAddContact(in.f)
      [] OTHER                -> MongoAddContact(in.f, in.o)

\* <adapter>.add_contact(**fields)
AddContact(in) ==
    LET out == AddOutcome(in)
    IN  /\ Len(rows) < MaxRows
        /\ seq < MaxSeq
        /\ rows' = out.rows
        /\ seq' = out.seq
        /\ last' = [op |-> "add_contact", arg |-> in.f, id |-> NoId,
                    err |-> out.err, ret |-> "None"]
        /\ UNCHANGED <<backend, connected, columns, idIsPk, uniqueIdIndex, now, backupFile, csvFile, shadowTable>>
        /\ UNCHANGED mgrVars

---------------------------------------------------------------------------
(* update_contact, delete_contact *)

\* positions of the rows a WHERE id IN (...) / {'id': {'$in': ...}} selects
Matching(rs, idSet) == {i \in 1..Len(rs) : rs[i].id # NoId /\ rs[i].id \in idSet}

\* BEFORE UPDATE trigger update_updated_at_column (postgres create_table)
TriggerStamp(b, cols) ==
    IF b = "postgres" /\ "updated_at" \in ColSet(cols)
    THEN [updated_at |-> Ts(now)] ELSE <<>>

\* UPDATE contacts SET <assignments> WHERE id IN idSet
SqlUpdate(rs, idSet, assignments) ==
    [i \in 1..Len(rs) |->
        IF i \in Matching(rs, idSet)
        THEN Merge(Merge(rs[i], assignments), TriggerStamp(backend, columns))
        ELSE rs[i]]

\* DELETE FROM contacts WHERE id IN idSet
SqlDelete(rs, idSet) ==
    SelectSeq(rs, LAMBDA r : ~(r.id # NoId /\ r.id \in idSet))

\* DatabaseAdapter.update_contact: the base class default, which SQLiteAdapter inherits
BaseUpdateContact(contact_id, fields) == [err |-> "NotImplementedError", rows |-> rows]

\* MySQLAdapter.update_contact(contact_id, **fields)
MysqlUpdateContact(contact_id, fields) ==
    IF DOMAIN fields = {} THEN [err |-> "ValueError", rows |-> rows]
    ELSE IF ~connected THEN [err |-> "ConnectionError", rows |-> rows]
    ELSE LET valid_columns == ColSet(columns) \ {"id"}
             update_fields == Restrict(fields, valid_columns)
         IN  IF DOMAIN update_fields = {} THEN [err |-> "ValueError", rows |-> rows]
             ELSE [err |-> "none", rows |-> SqlUpdate(rows, {contact_id}, update_fields)]

\* PostgreSQLAdapter.update_contact(contact_id, **fields)
PostgresUpdateContact(contact_id, fields) ==
    IF DOMAIN fields = {} THEN [err |-> "ValueError", rows |-> rows]
    ELSE LET valid_columns == ColSet(columns) \ {"id"}
             update_fields == Restrict(fields, valid_columns \ {"created_at", "updated_at"})
         IN  IF DOMAIN update_fields = {} THEN [err |-> "ValueError", rows |-> rows]
             ELSE [err |-> "none", rows |-> SqlUpdate(rows, {contact_id}, update_fields)]

\* {'$set': fields} on one document: new keys go to the end of the document
MongoSet(doc, fields, order) ==
    LET fresh == SelectSeq(order, LAMBDA k : k \notin Fields(doc))
    IN  Merge(Merge(doc, fields), [_keys |-> doc[KeyOrder] \o fresh])

\* position of the first document a filter {'id': contact_id} finds (0: none)
FirstWithId(rs, contact_id) ==
    IF \E i \in 1..Len(rs) : rs[i].id = contact_id
    THEN CHOOSE i \in 1..Len(rs) :
            /\ rs[i].id = contact_id
            /\ \A j \in 1..(i - 1) : rs[j].id # contact_id
    ELSE 0

\* MongoDBAdapter.update_contact(contact_id, **fields)
MongoUpdateContact(contact_id, fields, argOrder) ==
    IF DOMAIN fields = {} THEN [err |-> "ValueError", rows |-> rows]
    ELSE IF ~connected THEN [err |-> "ConnectionError", rows |-> rows]
    ELSE LET update_fields == Merge(fields, [updated_at |-> Ts(now)])
             order == IF "updated_at" \in DOMAIN fields THEN argOrder
                      ELSE Append(argOrder, "updated_at")
             hit == FirstWithId(rows, contact_id)
             doc == MongoSet(rows[hit], update_fields, order)
         IN  IF hit = 0 THEN [err |-> "none", rows |-> rows]
             ELSE IF uniqueIdIndex /\ \E j \in 1..Len(rows) : j # hit /\ rows[j].id = doc.id
             THEN [err |-> "DbError", rows |-> rows]
             ELSE [err |-> "none", rows |-> [rows EXCEPT ![hit] = doc]]

\* field mappings callers pass to update_contact, each with the order of its keys
UpdateInputs ==
    { [f |-> [phone |-> "c", updated_at |-> ClientTs], o |-> <<"phone", "updated_at">>],
      [f |-> <<>>, o |-> <<>>],
      [f |-> [nick |-> "z"], o |-> <<"nick">>],
      [f |-> [id |-> 3, created_at |-> ClientTs, updated_at |-> ClientTs],
       o |-> <<"id", "created_at", "updated_at">>] }

\* identifiers callers address
CallerIds == 1..MaxSeq

UpdateOutcome(contact_id, in) ==
    CASE backend = "sqlite"   -> BaseUpdateContact(contact_id, in.f)
      [] backend = "mysql"    -> MysqlUpdateContact(contact_id, in.f)
      [] backend = "postgres" -> PostgresUpdateContact(contact_id, in.f)
      [] OTHER                -> MongoUpdateContact(contact_id, in.f, in.o)

\* <adapter>.update_contact(contact_id, **fields)
UpdateContact(contact_id, in) ==
    LET out == UpdateOutcome(contact_id, in)
    IN  /\ rows' = out.rows
        /\ last' = [op |-> "update_contact", arg |-> in.f, id |-> contact_id,
                    err |-> out.err, ret |-> "None"]
        /\ UNCHANGED <<backend, connected, columns, seq, idIsPk, uniqueIdIndex,
                       now, backupFile, csvFile, shadowTable>>
        /\ UNCHANGED mgrVars

\* <adapter>.delete_contact(contact_id)
DeleteOutcome(contact_id) ==
    IF backend \in {"mysql", "mongodb"} /\ ~connected
    THEN [err |-> "ConnectionError", rows |-> rows]
    ELSE IF backend = "mongodb"
    THEN LET hit == FirstWithId(rows, contact_id)
         IN  [err |-> "none",
              rows |-> IF hit = 0 THEN rows
                       ELSE SubSeq(rows, 1, hit - 1) \o SubSeq(rows, hit + 1, Len(rows))]
    ELSE [err |-> "none", rows |-> SqlDelete(rows, {contact_id})]

DeleteContact(contact_id) ==
    LET out == DeleteOutcome(contact_id)
    IN  /\ rows' = out.rows
        /\ last' = [op |-> "delete_contact", arg |-> <<>>, id |-> contact_id,
                    err |-> out.err, ret |-> "None"]
        /\ UNCHANGED <<backend, connected, columns, seq, idIsPk, uniqueIdIndex,
                       now, backupFile, csvFile, shadowTable>>
        /\ UNCHANGED mgrVars

---------------------------------------------------------------------------
(* bulk_update, bulk_delete *)

\* ['name', 'phone', 'email']: the fields sqlite, mysql and mongodb let bulk_update set
BulkFields == {"name", "phone", "email"}

\* rows a bulk statement on a SQL backend affects
RowCount(rs, idSet) == Cardinality(Matching(rs, idSet))

\* SQLiteAdapter.bulk_update / MySQLAdapter.bulk_update: the empty list and the
\* field are checked first, the engine after them
SqlBulkUpdate(contact_ids, field, new_value) ==
    IF contact_ids = <<>> \/ field \notin BulkFields
    THEN [err |-> "none", ret |-> 0, rows |-> rows, touched |-> FALSE]
    ELSE IF ~connected
    THEN [err |-> "ConnectionError", ret |-> 0, rows |-> rows, touched |-> FALSE]
    ELSE [err |-> "none", ret |-> RowCount(rows, Range(contact_ids)),
          rows |-> SqlUpdate(rows, Range(contact_ids), (field :> new_value)),
          touched |-> TRUE]

\* PostgreSQLAdapter.bulk_update: the allowed fields are the live columns
\* other than id, created_at, updated_at
PostgresBulkUpdate(contact_ids, field, new_value) ==
    IF contact_ids = <<>>
    THEN [err |-> "none", ret |-> 0, rows |-> rows, touched |-> FALSE]
    ELSE IF field \notin (ColSet(columns) \ {"id", "created_at", "updated_at"})
    THEN [err |-> "none", ret |-> 0, rows |-> rows, touched |-> TRUE]
    ELSE [err |-> "none", ret |-> RowCount(rows, Range(contact_ids)),
          rows |-> SqlUpdate(rows, Range(contact_ids),
                             (field :> new_value) @@ [updated_at |-> Ts(now)]),
          touched |-> TRUE]

\* MongoDBAdapter.bulk_update: the collection is checked before the empty list
MongoBulkUpdate(contact_ids, field, new_value) ==
    IF ~connected
    THEN [err |-> "ConnectionError", ret |-> 0, rows |-> rows, touched |-> FALSE]
    ELSE IF contact_ids = <<>> \/ field \notin BulkFields
    THEN [err |-> "none", ret |-> 0, rows |-> rows, touched |-> FALSE]
    ELSE LET hit == {i \in 1..Len(rows) : rows[i].id \in Range(contact_ids)}
             set == (field :> new_value) @@ [updated_at |-> Ts(now)]
             new == [i \in 1..Len(rows) |->
                        IF i \in hit THEN MongoSet(rows[i], set, <<field, "updated_at">>)
                        ELSE rows[i]]
         IN  [err |-> "none",
              ret |-> Cardinality({i \in hit : new[i] # rows[i]}),
              rows |-> new, touched |-> TRUE]

BulkUpdateOutcome(contact_ids, field, new_value) ==
    CASE backend \in {"sqlite", "mysql"} -> SqlBulkUpdate(contact_ids, field, new_value)
      [] backend = "postgres" -> PostgresBulkUpdate(contact_ids, field, new_value)
      [] OTHER -> MongoBulkUpdate(contact_ids, field, new_value)

\* identifier lists callers pass to the bulk operations
BulkIdLists == {<<>>, <<1>>, <<1, 2>>}

\* fields callers ask bulk_update to set
BulkFieldInputs == {"phone", "nick"}

\* <adapter>.bulk_update(contact_ids, field, new_value)
BulkUpdate(contact_ids, field) ==
    LET out == BulkUpdateOutcome(contact_ids, field, "c")
    IN  /\ rows' = out.rows
        /\ last' = [op |-> "bulk_update", arg |-> contact_ids, id |-> NoId,
                    err |-> out.err, ret |-> out.ret, field |-> field,
                    touched |-> out.touched]
        /\ UNCHANGED <<backend, connected, columns, seq, idIsPk, uniqueIdIndex,
                       now, backupFile, csvFile, shadowTable>>
        /\ UNCHANGED mgrVars

\* SQLiteAdapter / MySQLAdapter / PostgreSQLAdapter bulk_delete
SqlBulkDelete(contact_ids) ==
    IF contact_ids = <<>>
    THEN [err |-> "none", ret |-> 0, rows |-> rows, touched |-> FALSE]
    ELSE IF ~connected
    THEN [err |-> "ConnectionError", ret |-> 0, rows |-> rows, touched |-> FALSE]
    ELSE [err |-> "none", ret |-> RowCount(rows, Range(contact_ids)),
          rows |-> SqlDelete(rows, Range(contact_ids)), touched |-> TRUE]

\* MongoDBAdapter.bulk_delete: the collection is checked before the empty list
MongoBulkDelete(contact_ids) ==
    IF ~connected
    THEN [err |-> "ConnectionError", ret |-> 0, rows |-> rows, touched |-> FALSE]
    ELSE IF contact_ids = <<>>
    THEN [err |-> "none", ret |-> 0, rows |-> rows, touched |-> FALSE]
    ELSE LET kept == SelectSeq(rows, LAMBDA r : r.id \notin Range(contact_ids))
         IN  [err |-> "none", ret |-> Len(rows) - Len(kept), rows |-> kept,
              touched |-> TRUE]

BulkDeleteOutcome(contact_ids) ==
    IF backend = "mongodb" THEN MongoBulkDelete(contact_ids)
    ELSE SqlBulkDelete(contact_ids)

\* <adapter>.bulk_delete(contact_ids)
BulkDelete(contact_ids) ==
    LET out == BulkDeleteOutcome(contact_ids)
    IN  /\ rows' = out.rows
        /\ last' = [op |-> "bulk_delete", arg |-> contact_ids, id |-> NoId,
                    err |-> out.err, ret |-> out.ret, field |-> "",
                    touched |-> out.touched]
        /\ UNCHANGED <<backend, connected, columns, seq, idIsPk, uniqueIdIndex,
                       now, backupFile, csvFile, shadowTable>>
        /\ UNCHANGED mgrVars

---------------------------------------------------------------------------
(* advanced_search *)

\* the characters of the text values in use, folded to lower case (LIKE on
\* sqlite and mysql, ILIKE and the regex option 'i' all ignore case)
LowerChars(t) ==
    CASE t = "Ab" -> <<"a", "b">>
      [] t = "B"  -> <<"b">>
      [] t = ""   -> <<>>
      [] OTHER    -> <<t>>

\* text LIKE '%pat%': NULL and absent values match nothing
Contains(text, pat) ==
    /\ text # Null
    /\ LET tc == LowerChars(text)
           pc == LowerChars(pat)
       IN  \E i \in 1..(Len(tc) + 1) :
              /\ i + Len(pc) - 1 <= Len(tc)
              /\ SubSeq(tc, i, i + Len(pc) - 1) = pc

\* a stored record's value for a field (absent field / absent column: NULL)
ValueOf(r, k) == IF k \in Fields(r) THEN r[k] ELSE Null

\* the conditions filters.get(...) switches on: empty text and 0 are falsy
Conditions(filters) ==
    {k \in {"name", "phone", "email"} : filters[k] # ""}
    \cup {k \in {"min_id", "max_id"} : filters[k] # 0}

\* one condition of the WHERE clause / query document on one record
Holds(r, filters, k) ==
    CASE k = "min_id" -> r.id # NoId /\ r.id >= filters.min_id
      [] k = "max_id" -> r.id # NoId /\ r.id <= filters.max_id
      [] OTHER        -> Contains(ValueOf(r, k), filters[k])

\* conditions joined by " AND " (sqlite, mysql) or put in one query document (mongodb)
MatchesAll(r, filters) == \A k \in Conditions(filters) : Holds(r, filters, k)

\* conditions joined by " OR " (postgres_adapter.py:263)
MatchesAny(r, filters) ==
    Conditions(filters) = {} \/ \E k \in Conditions(filters) : Holds(r, filters, k)

\* ORDER BY id / .sort('id', 1), stable on equal ids
RECURSIVE SortById(_)
SortById(rs) ==
    IF rs = <<>> THEN <<>>
    ELSE LET m == CHOOSE i \in 1..Len(rs) :
                    /\ \A j \in 1..Len(rs) : rs[i].id <= rs[j].id
                    /\ \A j \in 1..(i - 1) : rs[j].id # rs[i].id
         IN  <<rs[m]>> \o SortById(SubSeq(rs, 1, m - 1) \o SubSeq(rs, m + 1, Len(rs)))

IdsOf(rs) == [i \in 1..Len(rs) |-> rs[i].id]

\* <adapter>.advanced_search(filters): the identifiers of the records returned
advanced_search(b, rs, filters) ==
    CASE b = "sqlite"   -> IdsOf(SelectSeq(rs, LAMBDA r : MatchesAll(r, filters)))
      [] b = "mysql"    -> IdsOf(SortById(SelectSeq(rs, LAMBDA r : MatchesAll(r, filters))))
      [] b = "postgres" -> IdsOf(SortById(SelectSeq(rs, LAMBDA r : MatchesAny(r, filters))))
      [] OTHER          -> IdsOf(SortById(SelectSeq(rs, LAMBDA r : MatchesAll(r, filters))))

Filter(n, p, e, lo, hi) == [name |-> n, phone |-> p, email |-> e, min_id |-> lo, max_id |-> hi]

\* filters callers pass to advanced_search
SearchFilters ==
    { Filter("", "", "", 0, 0),
      Filter("B", "", "", 0, 0),
      Filter("a", "c", "", 0, 0),
      Filter("", "", "b", 2, 0),
      Filter("", "", "", 1, 1),
      Filter("", "a", "", 0, 1) }

\* <adapter>.advanced_search(filters)
AdvancedSearch(filters) ==
    LET down == backend \in {"mysql", "mongodb"} /\ ~connected
    IN  /\ last' = [op |-> "advanced_search", arg |-> filters, id |-> NoId,
                    err |-> IF down THEN "ConnectionError" ELSE "none",
                    ret |-> IF down THEN <<>> ELSE advanced_search(backend, rows, filters)]
        /\ UNCHANGED <<backend, connected, columns, rows, seq, idIsPk, uniqueIdIndex,
                       now, backupFile, csvFile, shadowTable>>
        /\ UNCHANGED mgrVars

---------------------------------------------------------------------------
(* Schema operations: SchemaManager.add_column / remove_column over the
   adapter's add_column / remove_column, and the legacy rebuild of crud.py *)

MongoReserved == {"_id", "id", "name", "phone", "email", "created_at", "updated_at"}

\* MongoDBAdapter.get_table_info(): four base fields, then the other keys of
\* the sample document find_one() returns
MongoTableInfo ==
    <<"id", "name", "phone", "email">> \o
    (IF connected /\ rows # <<>>
     THEN SelectSeq(rows[1][KeyOrder], LAMBDA k : k \notin MongoReserved)
     ELSE <<>>)

\* SchemaManager.get_table_columns()
get_table_columns ==
    LET info == IF backend = "mongodb" THEN MongoTableInfo ELSE ColNames(columns)
    IN  IF info = <<>> THEN REQUIRED_COLUMNS ELSE info

\* the mutation: the columns are shown as introspection lists them
ColumnsAsListed == get_table_columns

\* SchemaManager.get_display_columns(): the other columns, then the timestamp
\* columns that are present
get_display_columns ==
    LET timestamp_cols == <<"created_at", "updated_at">>
        cols == get_table_columns
    IN  SelectSeq(cols, LAMBDA c : c \notin Range(timestamp_cols))
        \o SelectSeq(timestamp_cols, LAMBDA c : c \in Range(cols))

\* the SQL backends have a table once create_table() has run; a collection
\* needs none
TableExists == backend = "mongodb" \/ columns # <<>>

\* <adapter>.create_table(): CREATE TABLE IF NOT EXISTS with id as the primary
\* key / create_index("id", unique=True)
CreateTable ==
    LET raised == backend \in {"mysql", "mongodb"} /\ ~connected
    IN  /\ columns' = IF ~raised /\ columns = <<>> THEN CreatedColumns(backend)
                      ELSE columns
        /\ uniqueIdIndex' = IF ~raised THEN TRUE ELSE uniqueIdIndex
        /\ last' = [op |-> "create_table", arg |-> <<>>, id |-> NoId,
                    err |-> IF raised THEN "ConnectionError" ELSE "none",
                    ret |-> "None"]
        /\ UNCHANGED <<backend, connected, rows, seq, idIsPk, now, backupFile, csvFile, shadowTable>>
        /\ UNCHANGED mgrVars

\* SchemaManager.get_table_columns() and get_display_columns() read together:
\* DESCRIBE raises without an engine or without the table, PRAGMA table_info
\* and information_schema return nothing for a missing table
ShowColumns ==
    LET raised == backend = "mysql" /\ (~connected \/ columns = <<>>)
    IN  /\ last' = [op |-> "get_display_columns", id |-> NoId,
                    err |-> IF raised THEN "Error" ELSE "none",
                    arg |-> IF raised THEN <<>> ELSE get_table_columns,
                    ret |-> IF raised THEN <<>> ELSE get_display_columns]
        /\ UNCHANGED <<backend, connected, columns, rows, seq, idIsPk,
                       uniqueIdIndex, now, backupFile, csvFile, shadowTable>>
        /\ UNCHANGED mgrVars

\* the mutation: only the positions the tuple has become keys
DictOfGivenValues(contact_tuple) ==
    LET cols == get_table_columns
    IN  [c \in {cols[i] : i \in 1..Len(contact_tuple)} |->
            contact_tuple[CHOOSE i \in 1..Len(contact_tuple) : cols[i] = c]]

\* SchemaManager.get_contact_as_dict_raw(contact_tuple): the live columns
\* zipped with the values, None where the tuple is too short (a later column
\* of the same name would overwrite an earlier one)
get_contact_as_dict_raw(contact_tuple) ==
    LET cols == get_table_columns
        at(c) == CHOOSE i \in 1..Len(cols) :
                    cols[i] = c /\ \A j \in (i + 1)..Len(cols) : cols[j] # c
    IN  [c \in Range(cols) |->
            IF at(c) <= Len(contact_tuple) THEN contact_tuple[at(c)] ELSE Null]

\* SchemaManager.build_contact_tuple(contact_dict): contact_dict.get(column)
\* for each live column
build_contact_tuple(contact_dict) ==
    LET cols == get_table_columns
    IN  [i \in 1..Len(cols) |->
            IF cols[i] \in DOMAIN contact_dict THEN contact_dict[cols[i]] ELSE Null]

\* a stored record as the positional tuple SELECT * returns, cut to a length
RowTuple(r, len) ==
    [i \in 1..len |-> ValueOf(r, get_table_columns[i])]

\* get_contact_as_dict_raw on a tuple, build_contact_tuple on its result
ConvertTuple(contact_tuple) ==
    LET d == get_contact_as_dict_raw(contact_tuple)
    IN  /\ last' = [op |-> "get_contact_as_dict_raw", id |-> NoId, err |-> "none",
                    arg |-> contact_tuple, dict |-> d,
                    ret |-> build_contact_tuple(d)]
        /\ UNCHANGED <<backend, connected, columns, rows, seq, idIsPk,
                       uniqueIdIndex, now, backupFile, csvFile, shadowTable>>
        /\ UNCHANGED mgrVars

\* the mutation: no column is protected
EveryColumnRemovable(column_name) == TRUE

\* SchemaManager.can_remove_column(column_name)
can_remove_column(column_name) == column_name \notin Range(REQUIRED_COLUMNS)

\* ALTER TABLE contacts ADD COLUMN <name> <type> [DEFAULT <value>]
SqlAddColumn(column_name, default_value) ==
    [columns |-> Append(columns, Col(column_name, default_value)),
     rows    |-> [i \in 1..Len(rows) |-> Merge(rows[i], (column_name :> default_value))]]

\* MongoDBAdapter.add_column: $set the default where the field does not exist
MongoAddColumn(column_name, default_value) ==
    [columns |-> columns,
     rows    |-> [i \in 1..Len(rows) |->
                    IF column_name \in Fields(rows[i]) THEN rows[i]
                    ELSE MongoSet(rows[i], (column_name :> default_value), <<column_name>>)]]

\* columns and defaults callers ask to add
AddColumnInputs ==
    { [name |-> "nick", dflt |-> "d"],
      [name |-> "created_at", dflt |-> Null],
      [name |-> "phone", dflt |-> Null] }

\* names in use that str.isidentifier() refuses: a blank inside, a leading digit
NotIdentifiers == {"my col", "2nd"}

\* identifiers in use that the SQL engines refuse as a bare column name in
\* ALTER TABLE contacts ADD COLUMN <name> <type>
ReservedWords == {"select"}

\* the mutation: every name passes for an identifier
AnyNameIsIdentifier(column_name) == TRUE

\* column_name.isidentifier()
isidentifier(column_name) == column_name \notin NotIdentifiers

\* SchemaManager.add_column(column_name, column_type, default_value): the
\* existing-column test, the identifier test and the adapter call are inside one
\* try whose handler returns False
AddColumn(in) ==
    LET introspection == backend = "mysql" /\ ~connected
        conflict == ~introspection /\ in.name \in Range(get_table_columns)
        called == ~introspection /\ ~conflict /\ isidentifier(in.name)
        adapter == called /\ IF backend = "mongodb" THEN ~connected
                                 ELSE in.name \in ReservedWords
        ok == called /\ ~adapter
        out == IF backend = "mongodb" THEN MongoAddColumn(in.name, in.dflt)
               ELSE SqlAddColumn(in.name, in.dflt)
    IN  /\ columns' = IF ok THEN out.columns ELSE columns
        /\ rows' = IF ok THEN out.rows ELSE rows
        /\ last' = [op |-> "add_column", arg |-> in.name, id |-> NoId,
                    err |-> "none", ret |-> ok, called |-> called,
                    caught |-> introspection \/ adapter]
        /\ UNCHANGED <<backend, connected, seq, idIsPk, uniqueIdIndex, now, backupFile, csvFile, shadowTable>>
        /\ UNCHANGED mgrVars

\* a record without one field
Without(r, k) ==
    IF KeyOrder \in DOMAIN r
    THEN [x \in DOMAIN r \ {k} |->
            IF x = KeyOrder THEN SelectSeq(r[KeyOrder], LAMBDA y : y # k) ELSE r[x]]
    ELSE [x \in DOMAIN r \ {k} |-> r[x]]

\* ALTER TABLE contacts DROP COLUMN <name> / {'$unset': {<name>: ""}} on every document
DropColumn(column_name) ==
    [columns |-> SelectSeq(columns, LAMBDA c : c.name # column_name),
     rows    |-> [i \in 1..Len(rows) |-> Without(rows[i], column_name)]]

\* adapter classes that define remove_column (hasattr test, schema_manager.py:164)
HasRemoveColumn(b) == b \in {"mysql", "postgres", "mongodb"}

\* columns callers ask to remove
RemoveColumnInputs == {"nick", "phone", "age"}

\* SchemaManager.remove_column(column_name): the required-column test, the
\* existing-column test, the hasattr test and the adapter call are inside one try
\* whose handler returns False
RemoveColumn(column_name) ==
    LET removable == can_remove_column(column_name)
        introspection == removable /\ backend = "mysql" /\ ~connected
        present == removable /\ ~introspection /\ column_name \in Range(get_table_columns)
        called == present /\ HasRemoveColumn(backend)
        adapter == called /\ backend = "mongodb" /\ ~connected
        ok == called /\ ~adapter
        out == DropColumn(column_name)
    IN  /\ columns' = IF ok THEN out.columns ELSE columns
        /\ rows' = IF ok THEN out.rows ELSE rows
        /\ last' = [op |-> "remove_column", arg |-> column_name, id |-> NoId,
                    err |-> "none", ret |-> ok, called |-> called,
                    caught |-> introspection \/ adapter]
        /\ UNCHANGED <<backend, connected, seq, idIsPk, uniqueIdIndex, now, backupFile, csvFile, shadowTable>>
        /\ UNCHANGED mgrVars

\* columns callers ask the legacy helper to remove
LegacyRemoveInputs == {"age", "nick"}

\* the statement of the rebuild that raises, if any: CREATE TABLE contacts_new,
\* the INSERT ... SELECT copy, DROP TABLE contacts, or the RENAME
RebuildFaults == {"none", "create", "copy", "drop", "rename"}

\* the rebuild raises at CREATE TABLE when contacts_new is already there
RebuildFailsAt(fault) == IF shadowTable THEN "create" ELSE fault

\* CREATE TABLE contacts_new is committed on its own (the sqlite3 module opens
\* its transaction at the INSERT): once it ran, contacts_new survives a
\* failure of a later statement; on success it has been renamed to contacts
ShadowAfter(failsAt) ==
    shadowTable \/ failsAt \in {"copy", "drop", "rename"}

\* crud.remove_column(column_name): the file backend's table is rebuilt as
\* contacts_new from "<name> <type>" pairs only, the data copied, the old table
\* dropped (its sqlite_sequence row goes with it) and the new one renamed;
\* on an exception the connection is closed uncommitted and the error re-raised
LegacyRemoveColumn(column_name, fault) ==
    LET kept    == SelectSeq(columns, LAMBDA c : c.name # column_name)
        failsAt == RebuildFailsAt(fault)
        done    == failsAt = "none"
    IN  /\ backend = "sqlite"
        /\ columns' = IF done THEN [i \in 1..Len(kept) |-> Col(kept[i].name, Null)]
                      ELSE columns
        /\ rows' = IF done THEN [i \in 1..Len(rows) |-> Without(rows[i], column_name)]
                   ELSE rows
        /\ idIsPk' = IF done THEN FALSE ELSE idIsPk
        /\ seq' = IF done THEN 0 ELSE seq
        /\ shadowTable' = ShadowAfter(failsAt)
        /\ last' = [op |-> "crud.remove_column", arg |-> column_name, id |-> NoId,
                    err |-> IF done THEN "none" ELSE "OperationalError",
                    ret |-> done, failedAt |-> failsAt]
        /\ UNCHANGED <<backend, connected, uniqueIdIndex, now, backupFile, csvFile>>
        /\ UNCHANGED mgrVars

---------------------------------------------------------------------------
(* full_cleanup_db, reset_table_structure, backup_database, restore_database *)

\* <adapter>.full_cleanup_db()
FullCleanupOutcome ==
    CASE backend = "sqlite" ->
            \* the DELETE opens a transaction, VACUUM cannot run inside one: the
            \* handler returns False and the uncommitted DELETE is rolled back
            [ret |-> FALSE, rows |-> rows, seq |-> seq]
      [] backend \in {"mysql", "mongodb"} /\ ~connected ->
            [ret |-> FALSE, rows |-> rows, seq |-> seq]
      [] OTHER ->
            [ret |-> TRUE, rows |-> <<>>, seq |-> 0]

FullCleanupDb ==
    LET out == FullCleanupOutcome
    IN  /\ rows' = out.rows
        /\ seq' = out.seq
        /\ last' = [op |-> "full_cleanup_db", arg |-> <<>>, id |-> NoId,
                    err |-> "none", ret |-> out.ret]
        /\ UNCHANGED <<backend, connected, columns, idIsPk, uniqueIdIndex, now, backupFile, csvFile, shadowTable>>
        /\ UNCHANGED mgrVars

\* <adapter>.reset_table_structure(): SQLiteAdapter inherits the base class's
\* empty method; collection.drop() drops the unique index with the documents
ResetTableStructure ==
    LET noop == backend = "sqlite" \/ (backend \in {"mysql", "mongodb"} /\ ~connected)
    IN  /\ rows' = IF noop THEN rows ELSE <<>>
        /\ seq' = IF noop THEN seq ELSE 0
        /\ columns' = IF noop THEN columns ELSE CreatedColumns(backend)
        /\ uniqueIdIndex' = IF backend = "mongodb" /\ ~noop THEN FALSE ELSE uniqueIdIndex
        /\ last' = [op |-> "reset_table_structure", arg |-> <<>>, id |-> NoId,
                    err |-> "none",
                    ret |-> IF backend = "sqlite" THEN "None" ELSE ~noop]
        /\ UNCHANGED <<backend, connected, idIsPk, now, backupFile, csvFile, shadowTable>>
        /\ UNCHANGED mgrVars

\* what the backup artefact holds: the database file (sqlite), a dump of table,
\* data and sequence (mysql, postgres), the documents (mongodb)
Snapshot ==
    [taken |-> TRUE, rows |-> rows,
     columns |-> columns,
     seq |-> IF backend = "mongodb" THEN 0 ELSE seq,
     idIsPk |-> idIsPk,
     shadow |-> shadowTable]

\* <adapter>.backup_database()
BackupDatabase ==
    LET down == backend \in {"mysql", "mongodb"} /\ ~connected
    IN  /\ backupFile' =
              IF ~down THEN Snapshot
              ELSE IF backend = "mysql" THEN [NoBackup EXCEPT !.taken = TRUE]
              ELSE backupFile
        /\ last' = [op |-> "backup_database", arg |-> <<>>, id |-> NoId,
                    err |-> IF ~down THEN "none"
                            ELSE IF backend = "mysql" THEN "ConnectionError"
                            ELSE "AttributeError",
                    ret |-> ~down]
        /\ UNCHANGED <<backend, connected, columns, rows, seq, idIsPk, uniqueIdIndex, now,
                       csvFile, shadowTable>>
        /\ UNCHANGED mgrVars

\* insert_many(docs), ordered: stops at the first document the unique index rejects
RECURSIVE InsertMany(_, _)
InsertMany(stored, docs) ==
    IF docs = <<>> THEN [rows |-> stored, ok |-> TRUE]
    ELSE IF uniqueIdIndex /\ Head(docs).id \in Ids(stored)
    THEN [rows |-> stored, ok |-> FALSE]
    ELSE InsertMany(Append(stored, Head(docs)), Tail(docs))

\* psql -f <dump> into the live database: CREATE TABLE fails (the table
\* exists), COPY appends the dumped rows unless a key or a column conflicts,
\* setval puts the sequence back; psql still exits 0
PsqlReplay ==
    LET fits == /\ ColSet(backupFile.columns) \subseteq ColSet(columns)
                /\ Ids(backupFile.rows) \cap Ids(rows) = {}
        widen(r) == [c \in ColSet(columns) |->
                        IF c \in DOMAIN r THEN r[c]
                        ELSE DefaultValue(CHOOSE col \in Range(columns) : col.name = c)]
    IN  [ret |-> TRUE,
         rows |-> IF fits
                  THEN rows \o [i \in 1..Len(backupFile.rows) |-> widen(backupFile.rows[i])]
                  ELSE rows,
         columns |-> columns, seq |-> backupFile.seq, idIsPk |-> idIsPk]

\* <adapter>.restore_database(backup_filename); completes tells whether the
\* statements of the document store's adapter that follow delete_many (the
\* conversion of the loaded documents, insert_many) run without raising
RestoreOutcome(completes) ==
    LET same == [ret |-> TRUE, rows |-> rows, columns |-> columns, seq |-> seq,
                 idIsPk |-> idIsPk]
    IN  CASE ~backupFile.taken -> [same EXCEPT !.ret = FALSE]
          [] backend = "sqlite" ->
                [ret |-> TRUE, rows |-> backupFile.rows, columns |-> backupFile.columns,
                 seq |-> backupFile.seq, idIsPk |-> backupFile.idIsPk]
          [] backend = "mysql" -> same
          [] backend = "postgres" -> PsqlReplay
          [] OTHER ->
                IF ~connected THEN [same EXCEPT !.ret = FALSE]
                ELSE IF ~completes THEN [same EXCEPT !.ret = FALSE, !.rows = <<>>]
                ELSE LET done == InsertMany(<<>>, backupFile.rows)
                     IN  [same EXCEPT !.ret = done.ok, !.rows = done.rows]

RestoreDatabase(completes) ==
    LET out == RestoreOutcome(completes)
    IN  /\ Len(out.rows) <= MaxRows
        /\ rows' = out.rows
        /\ columns' = out.columns
        /\ seq' = out.seq
        /\ idIsPk' = out.idIsPk
        /\ last' = [op |-> "restore_database", arg |-> <<>>, id |-> NoId,
                    err |-> "none", ret |-> out.ret, found |-> backupFile.taken]
        /\ shadowTable' = IF backend = "sqlite" /\ out.ret THEN backupFile.shadow
                           ELSE shadowTable
        /\ UNCHANGED <<backend, connected, uniqueIdIndex, now, backupFile, csvFile>>
        /\ UNCHANGED mgrVars

\* how a restore may run: only the document store's adapter has statements
\* between clearing the store and returning
RestoreRuns == IF backend = "mongodb" THEN BOOLEAN ELSE {TRUE}

\* time passes on the backend
Tick ==
    /\ now < MaxClock
    /\ now' = now + 1
    /\ UNCHANGED <<backend, connected, columns, rows, seq, idIsPk, uniqueIdIndex,
                   backupFile, csvFile, shadowTable, last>>
    /\ UNCHANGED mgrVars

---------------------------------------------------------------------------
(* Specifications *)

NextManager ==
    \/ \E t \in RequestTypes, c \in ConfigArgs, probe \in BOOLEAN,
          trackerRaises \in BOOLEAN, closeRaises \in BOOLEAN :
            SwitchDatabase(t, c, probe, trackerRaises, closeRaises)
    \/ CurrentAdapter

\* record operations of one adapter
NextAdapter ==
    \/ \E in \in AddInputs : AddContact(in)
    \/ \E c \in CallerIds, in \in UpdateInputs : UpdateContact(c, in)
    \/ \E c \in CallerIds : DeleteContact(c)
    \/ \E l \in BulkIdLists, f \in BulkFieldInputs : BulkUpdate(l, f)
    \/ \E l \in BulkIdLists : BulkDelete(l)
    \/ Tick

\* records inserted into a store whose columns and sequence change
NextInsert ==
    \/ \E in \in AddInputs : AddContact(in)
    \/ \E c \in CallerIds : DeleteContact(c)
    \/ \E in \in AddColumnInputs : AddColumn(in)
    \/ \E c \in RemoveColumnInputs : RemoveColumn(c)
    \/ FullCleanupDb

\* a store being filled, edited and searched
NextSearch ==
    \/ \E in \in AddInputs : AddContact(in)
    \/ \E c \in CallerIds, in \in UpdateInputs : UpdateContact(c, in)
    \/ \E f \in SearchFilters : AdvancedSearch(f)

---------------------------------------------------------------------------
(* export_to_csv, import_from_csv *)

\* the mutation: the header carries the column names as they are
Untitled(c) == c

\* str.title() on the column names in use
Title(c) ==
    CASE c = "id"         -> "Id"
      [] c = "name"       -> "Name"
      [] c = "phone"      -> "Phone"
      [] c = "email"      -> "Email"
      [] c = "created_at" -> "Created_At"
      [] c = "updated_at" -> "Updated_At"
      [] c = "nick"       -> "Nick"
      [] OTHER            -> c

\* the header row: the titled display columns (postgres) or a fixed list
CsvHeader ==
    CASE backend = "postgres" ->
            [i \in 1..Len(get_display_columns) |-> Title(get_display_columns[i])]
      [] backend = "mysql" ->
            <<"ID", "Name", "Phone", "Email", "Age", "Address", "Department",
              "Category", "Tags", "Created", "Updated">>
      [] OTHER ->
            <<"ID", "Name", "Phone", "Email", "Age", "Address", "Department",
              "Category", "Tags">>

\* csv.writer's text of a value: None is written as the empty string
CsvText(v) == IF v = Null THEN "" ELSE v

\* writer.writerow(contact): the tuple view_contacts() returns, as text
CsvLine(r) ==
    LET cols == get_table_columns
    IN  [i \in 1..Len(cols) |->
            IF cols[i] = "id" THEN ToString(r.id) ELSE CsvText(ValueOf(r, cols[i]))]

\* <adapter>.export_to_csv(filename): view_contacts() raises before the file
\* is opened on an adapter without engine or collection
ExportToCsv ==
    LET raised == backend \in {"mysql", "mongodb"} /\ ~connected
    IN  /\ csvFile' = IF raised THEN csvFile
                      ELSE [written |-> TRUE, header |-> CsvHeader,
                            lines |-> [i \in 1..Len(rows) |-> CsvLine(rows[i])],
                            contacts |-> rows]
        /\ last' = [op |-> "export_to_csv", arg |-> <<>>, id |-> NoId,
                    err |-> IF raised THEN "ConnectionError" ELSE "none",
                    ret |-> "None"]
        /\ UNCHANGED <<backend, connected, columns, rows, seq, idIsPk, uniqueIdIndex,
                       now, backupFile, shadowTable>>
        /\ UNCHANGED mgrVars

\* csv.DictReader: one mapping per line, keyed by the header; a short line
\* leaves its last keys at None, a repeated key keeps its last value
RowDict(header, line) ==
    LET at(h) == CHOOSE i \in 1..Len(header) :
                    header[i] = h /\ \A j \in (i + 1)..Len(header) : header[j] # h
    IN  [h \in Range(header) |-> IF at(h) <= Len(line) THEN line[at(h)] ELSE Null]

\* row.get(key, '')
Get(row, key) == IF key \in DOMAIN row THEN row[key] ELSE ""

\* add_contact(name=..., phone=..., email=...) on the store st
AddTo(st, fields) ==
    LET down == [err |-> "ConnectionError", rows |-> st.rows, seq |-> st.seq]
    IN  CASE backend = "sqlite" -> SqlInsertInto(st, fields)
          [] backend = "mysql" ->
                IF ~connected THEN down
                ELSE SqlInsertInto(st, Restrict(fields, ColSet(columns) \ {"id"}))
          [] backend = "postgres" ->
                SqlInsertInto(st, Restrict(fields,
                    ColSet(columns) \ {"id", "created_at", "updated_at"}))
          [] OTHER ->
                IF ~connected THEN down
                ELSE MongoInsertInto(st, fields, <<"name", "phone", "email">>)

\* the loop of import_from_csv: every line goes to add_contact, a line whose
\* add_contact raises is passed over, the others are counted; DictReader
\* yields nothing for a blank line
RECURSIVE ImportRows(_, _, _)
ImportRows(st, header, lines) ==
    IF lines = <<>> THEN st
    ELSE IF Head(lines) = <<>> THEN ImportRows(st, header, Tail(lines))
    ELSE LET row == RowDict(header, Head(lines))
             out == AddTo(st, [name  |-> Get(row, "Name"),
                               phone |-> Get(row, "Phone"),
                               email |-> Get(row, "Email")])
         IN  ImportRows([rows |-> out.rows, seq |-> out.seq,
                         imported_count |-> st.imported_count
                                            + (IF out.err = "none" THEN 1 ELSE 0)],
                        header, Tail(lines))

\* <adapter>.import_from_csv(filename)
ImportFromCsv(file) ==
    LET done == ImportRows([rows |-> rows, seq |-> seq, imported_count |-> 0],
                           file.header, file.lines)
    IN  /\ Len(done.rows) <= MaxRows
        /\ done.seq <= MaxSeq + MaxRows
        /\ rows' = done.rows
        /\ seq' = done.seq
        /\ last' = [op |-> "import_from_csv", arg |-> file, id |-> NoId,
                    err |-> "none", ret |-> done.imported_count]
        /\ UNCHANGED <<backend, connected, columns, idIsPk, uniqueIdIndex, now,
                       backupFile, csvFile, shadowTable>>
        /\ UNCHANGED mgrVars

\* files written by hand: a line with an empty name, a header without Name,
\* a line cut short after the name, a line cut short before it
ForeignFiles ==
    { [header |-> <<"Name", "Phone", "Email">>, lines |-> <<<<"Ab", "a", "b">>, <<"", "a", "b">>>>],
      [header |-> <<"Phone", "Email">>,         lines |-> <<<<"a", "b">>>>],
      [header |-> <<"Name", "Phone", "Email">>, lines |-> <<<<"Ab">>, <<>>>>],
      [header |-> <<"Phone", "Name">>,          lines |-> <<<<"a">>, <<"a", "Ab">>>>] }

---------------------------------------------------------------------------
(* ContactValidator *)

\* text.strip().lower() on the email texts in use
StripLower(t) ==
    CASE t \in {"b", " B", "B"} -> "b"
      [] t \in {"", " "}        -> ""
      [] OTHER                  -> t

\* the mutation: no contact is skipped
SkipsNone(r, exclude_id) == FALSE

\* `if exclude_id and contact_id == exclude_id: continue` (None and 0 are falsy)
Skips(r, exclude_id) == exclude_id # NoId /\ r.id = exclude_id

\* `contact_email and contact_email.strip().lower() == email` on one contact
EmailTaken(r, email) ==
    LET contact_email == ValueOf(r, "email")
    IN  /\ contact_email \notin {Null, ""}
        /\ StripLower(contact_email) = email

\* ContactValidator.check_email_uniqueness(email, exclude_id): the first element
\* of the returned pair; view_contacts() raises on an adapter without engine or
\* collection and the handler answers False
check_email_uniqueness(email, exclude_id) ==
    IF StripLower(email) = "" THEN [unique |-> TRUE, caught |-> FALSE]
    ELSE IF backend \in {"mysql", "mongodb"} /\ ~connected
    THEN [unique |-> FALSE, caught |-> TRUE]
    ELSE [unique |-> ~\E i \in 1..Len(rows) :
                        ~Skips(rows[i], exclude_id) /\ EmailTaken(rows[i], StripLower(email)),
          caught |-> FALSE]

CheckEmailUniqueness(email, exclude_id) ==
    LET out == check_email_uniqueness(email, exclude_id)
    IN  /\ last' = [op |-> "check_email_uniqueness", arg |-> email, id |-> exclude_id,
                    err |-> "none", ret |-> out.unique, caught |-> out.caught]
        /\ UNCHANGED <<backend, connected, columns, rows, seq, idIsPk,
                       uniqueIdIndex, now, backupFile, csvFile, shadowTable>>
        /\ UNCHANGED mgrVars

\* contacts whose emails differ in case and blanks, are empty or are missing
EmailAddInputs ==
    { [f |-> [name |-> "Ab", phone |-> "a", email |-> e], o |-> <<"name", "phone", "email">>] :
        e \in {"b", " B", ""} }
    \cup {in \in AddInputs : DOMAIN in.f = {"name"}}

\* emails and excluded identifiers the validator is asked about
EmailQueries == {"b", " B", "c", " "}
ExcludeIds == {NoId} \cup CallerIds

\* contacts come and go, emails are checked
NextUnique ==
    \/ \E in \in EmailAddInputs : AddContact(in)
    \/ \E c \in CallerIds : DeleteContact(c)
    \/ \E e \in EmailQueries, x \in ExcludeIds : CheckEmailUniqueness(e, x)

\* inputs of the store's life: the fields every backend stores, a caller-chosen
\* identifier, one valid change
StoreAddInputs == {in \in AddInputs : DOMAIN in.f \in {{"name", "phone", "email"}, {"name", "id"}}}
StoreUpdateInputs == {in \in UpdateInputs : "phone" \in DOMAIN in.f}
StoreIdLists == {<<>>, <<1, 2>>}
StoreAddColumnInputs == {in \in AddColumnInputs : in.name # "created_at"}
StoreRemoveInputs == {"nick", "phone"}

\* the life of one store: records, schema, cleanup, backup and restore
NextStore ==
    \/ \E in \in StoreAddInputs : AddContact(in)
    \/ \E c \in CallerIds, in \in StoreUpdateInputs : UpdateContact(c, in)
    \/ \E c \in CallerIds : DeleteContact(c)
    \/ \E l \in StoreIdLists : BulkDelete(l)
    \/ \E in \in StoreAddColumnInputs : AddColumn(in)
    \/ \E c \in StoreRemoveInputs : RemoveColumn(c)
    \/ \E c \in LegacyRemoveInputs, fault \in RebuildFaults : LegacyRemoveColumn(c, fault)
    \/ FullCleanupDb
    \/ ResetTableStructure
    \/ BackupDatabase
    \/ \E completes \in RestoreRuns : RestoreDatabase(completes)

\* the fields bulk_update is asked to set: an allow-listed one, a custom
\* column, the identifier and a timestamp
BulkFieldChoices == {"phone", "nick", "id", "created_at"}

\* records, a custom column, and bulk updates of any field
NextBulk ==
    \/ \E in \in StoreAddInputs : AddContact(in)
    \/ \E in \in StoreAddColumnInputs : AddColumn(in)
    \/ \E l \in BulkIdLists, f \in BulkFieldChoices : BulkUpdate(l, f)

\* inserts of the three stored fields or of a name with one more field
CleanupAddInputs == {in \in AddInputs : DOMAIN in.f \in {{"name", "phone", "email"}, {"name", "nick"}}}

\* inserts, deletes, custom columns and full cleanups
NextCleanup ==
    \/ \E in \in CleanupAddInputs : AddContact(in)
    \/ \E c \in CallerIds : DeleteContact(c)
    \/ \E in \in StoreAddColumnInputs : AddColumn(in)
    \/ FullCleanupDb

\* the names the schema manager is asked to add: a new one, existing ones, a
\* name that is no identifier, an identifier the SQL engines refuse
SchemaAddInputs ==
    AddColumnInputs \cup {[name |-> "my col", dflt |-> Null], [name |-> "select", dflt |-> Null]}

\* the names it is asked to remove: custom, required, absent
SchemaRemoveInputs == RemoveColumnInputs \cup {"created_at"}

\* records and schema changes through the schema manager
NextSchema ==
    \/ \E in \in StoreAddInputs : AddContact(in)
    \/ \E in \in SchemaAddInputs : AddColumn(in)
    \/ \E c \in SchemaRemoveInputs : RemoveColumn(c)

\* the three stored fields
PlainAddInputs == {in \in AddInputs : DOMAIN in.f = {"name", "phone", "email"}}

\* an adapter from its construction on: the table is created, records and
\* columns come and go, the column lists are read
NextColumns ==
    \/ CreateTable
    \/ TableExists /\ \E in \in PlainAddInputs : AddContact(in)
    \/ TableExists /\ \E in \in AddColumnInputs : AddColumn(in)
    \/ TableExists /\ \E c \in RemoveColumnInputs : RemoveColumn(c)
    \/ ShowColumns

\* records and custom columns, and the stored tuples (whole or cut short)
\* converted to mappings and back
NextTuples ==
    \/ \E in \in PlainAddInputs : AddContact(in)
    \/ \E in \in AddColumnInputs : AddColumn(in)
    \/ \E c \in RemoveColumnInputs : RemoveColumn(c)
    \/ \E i \in 1..Len(rows), len \in 0..Len(get_table_columns) :
          ConvertTuple(RowTuple(rows[i], len))

\* records come and go, hand-written files are imported
NextImport ==
    \/ \E in \in PlainAddInputs : AddContact(in)
    \/ \E c \in CallerIds : DeleteContact(c)
    \/ \E file \in ForeignFiles : ImportFromCsv(file)

\* contacts with and without phone and email
NamedAddInputs == {in \in AddInputs : DOMAIN in.f \in {{"name", "phone", "email"}, {"name"}}}

\* the custom column
NickColumn == {in \in AddColumnInputs : in.name = "nick"}

\* a store is filled, exported, emptied, and the exported file imported
NextRoundTrip ==
    \/ \E in \in NamedAddInputs : AddContact(in)
    \/ \E in \in NickColumn : AddColumn(in)
    \/ BulkDelete(IdsOf(rows))
    \/ ExportToCsv
    \/ csvFile.written /\ ImportFromCsv([header |-> csvFile.header, lines |-> csvFile.lines])

\* probing, choosing and installing a backend at start-up
NextPreflight ==
    \/ \E up \in [ConfiguredTypes -> BOOLEAN], trackerRaises \in BOOLEAN :
          RunPreflight(up, trackerRaises)
    \/ \E health \in HealthMaps : ChooseDb(health)

\* reconnecting the current backend between switches
NextReconnect ==
    \/ \E probe \in BOOLEAN : ForceReconnect(probe)
    \/ \E t \in RequestTypes, probe \in BOOLEAN :
          SwitchDatabase(t, "None", probe, FALSE, FALSE)
    \/ CurrentAdapter

\* direct callers of the factory
NextFactory ==
    \/ \E t \in RequestTypes, c \in ConfigArgs : CreateAdapter(t, c)
    \/ \E t \in RequestTypes, c \in ConfigArgs, probe \in BOOLEAN :
          CreateWithTest(t, c, probe)

\* DB_TYPE values at process start: absent, empty, padded, canonical, alias, unknown
StartEnv == {"unset", "", " mysql ", "mysql", "mongodb", "postgresql", "oracle"}

\* last-used rows left by earlier runs
StartLast == {"none", "mysql", "postgres", "mongodb"}

\* a process at start-up: settings read DB_TYPE, the manager reads the settings
InitOfProcess ==
    /\ InitAdapter /\ backend = "sqlite"
    /\ mgrAdapter = NoAdapter
    /\ envDbType \in StartEnv
    /\ settingsDefault = (IF envDbType = "unset" THEN "sqlite" ELSE envDbType)
    /\ mgrDbType = settingsDefault
    /\ lastDbType \in StartLast
    /\ dbHealth = NoHealth
    /\ disposed = {}
    /\ nextSerial = 0
    /\ mgrLast = [op |-> "init", ret |-> TRUE, escaped |-> "none"]

\* records of a store between a backup and its restore
NextRestore ==
    \/ \E in \in PlainAddInputs : AddContact(in)
    \/ \E c \in CallerIds, in \in StoreUpdateInputs : UpdateContact(c, in)
    \/ \E c \in CallerIds : DeleteContact(c)
    \/ FullCleanupDb
    \/ BackupDatabase
    \/ \E completes \in RestoreRuns : RestoreDatabase(completes)

\* a manager constructed over the default file backend
InitOfManager == InitManager /\ InitAdapter /\ backend = "sqlite"

\* an adapter of any backend, under a manager with default settings
InitOfAdapter == InitAdapter /\ InitManager /\ envDbType = "unset" /\ lastDbType = "none"

\* an adapter right after its construction, before create_table()
InitOfConstructed ==
    /\ InitManager /\ envDbType = "unset" /\ lastDbType = "none"
    /\ backend \in Backends
    /\ connected \in (IF backend \in {"mysql", "mongodb"} THEN BOOLEAN ELSE {TRUE})
    /\ columns = <<>>
    /\ rows = <<>>
    /\ seq = 0
    /\ idIsPk = TRUE
    /\ uniqueIdIndex = FALSE
    /\ now = 1
    /\ backupFile = NoBackup
    /\ csvFile = NoFile
    /\ shadowTable = FALSE
    /\ last = [op |-> "__init__", arg |-> <<>>, id |-> NoId, err |-> "none", ret |-> "None"]

SpecManager == InitOfManager /\ [][NextManager]_vars

SpecPreflight == InitOfProcess /\ [][NextPreflight]_vars

SpecReconnect == InitOfManager /\ [][NextReconnect]_vars

SpecFactory == InitOfManager /\ [][NextFactory]_vars

SpecRestore == InitOfAdapter /\ [][NextRestore]_vars

SpecAdapter == InitOfAdapter /\ [][NextAdapter]_vars

SpecInsert == InitOfAdapter /\ [][NextInsert]_vars

SpecSearch == InitOfAdapter /\ [][NextSearch]_vars

SpecStore == InitOfAdapter /\ [][NextStore]_vars

SpecBulk == InitOfAdapter /\ [][NextBulk]_vars

SpecCleanup == InitOfAdapter /\ [][NextCleanup]_vars

SpecSchema == InitOfAdapter /\ [][NextSchema]_vars

SpecRoundTrip == InitOfAdapter /\ [][NextRoundTrip]_vars

SpecImport == InitOfAdapter /\ [][NextImport]_vars

SpecUnique == InitOfAdapter /\ [][NextUnique]_vars

SpecTuples == InitOfAdapter /\ [][NextTuples]_vars

SpecColumns == InitOfConstructed /\ [][NextColumns]_vars

---------------------------------------------------------------------------
(* Properties of the Database Manager (SpecManager) *)

\* the step is a call of switch_database
IsSwitchStep == mgrLast'.op = "switch_database"

\* C1: whenever switch_database returns false (unknown type, construction
\* error or failed probe) the cached adapter, the current backend identifier,
\* the settings default type (and the DB_TYPE variable behind it) and the
\* persisted last-used backend are what they were before the call, and no
\* exception escapes.
C1_FailedSwitchChangesNothing ==
    [][ (IsSwitchStep /\ ~mgrLast'.ret) =>
            /\ mgrAdapter' = mgrAdapter
            /\ mgrDbType' = mgrDbType
            /\ settingsDefault' = settingsDefault
            /\ envDbType' = envDbType
            /\ lastDbType' = lastDbType
            /\ mgrLast'.escaped = "none" ]_vars

\* C1 witness: a switch to a registered type whose adapter was constructed and
\* whose probe failed, made while an adapter was cached, has returned false
C1_Witness ==
    /\ mgrLast.op = "switch_database"
    /\ ~mgrLast.ret
    /\ mgrLast.hadAdapter
    /\ Constructed(mgrLast.dbType, mgrLast.config)
    /\ ~mgrLast.probeOk
    /\ mgrDbType # mgrLast.dbType

\* what every successful switch establishes apart from the tracker
SwitchInstalled ==
    /\ mgrLast'.ret
    /\ mgrLast'.escaped = "none"
    /\ mgrAdapter'.cls = AdapterRegistry[mgrLast'.dbType]
    /\ mgrAdapter'.serial = nextSerial'
    /\ mgrAdapter'.serial > nextSerial
    /\ mgrDbType' = mgrLast'.dbType
    /\ settingsDefault' = mgrLast'.dbType

\* C2 as stated: when the probe succeeds switch_database returns true, the
\* current adapter is the new one, the current identifier and the settings
\* default equal the requested type, and the last-used tracker holds the
\* requested type, whatever the tracker write or close_connection did.
C2_AsStated ==
    [][ (IsSwitchStep /\ mgrLast'.probeOk) =>
            (SwitchInstalled /\ lastDbType' = mgrLast'.dbType) ]_vars

\* C2 amended: as above, except that the tracker holds the requested type only
\* when writing it did not raise; when the write raised the tracker keeps its
\* previous value. Neither that failure nor one of close_connection turns the
\* result into false or undoes the switch.
C2_SuccessfulSwitch ==
    [][ (IsSwitchStep /\ mgrLast'.probeOk) =>
            /\ SwitchInstalled
            /\ lastDbType' = IF mgrLast'.trackerRaised THEN lastDbType
                             ELSE mgrLast'.dbType ]_vars

\* C2 witness: a switch away from a cached adapter has succeeded although both
\* the tracker write and close_connection of the old adapter raised
C2_Witness ==
    /\ mgrLast.op = "switch_database"
    /\ mgrLast.probeOk
    /\ mgrLast.ret
    /\ mgrLast.hadAdapter
    /\ mgrLast.trackerRaised
    /\ mgrLast.closeRaised
    /\ mgrDbType = mgrLast.dbType
    /\ lastDbType # mgrLast.dbType

---------------------------------------------------------------------------
(* Properties of the adapters (SpecStore, SpecAdapter, SpecSearch) *)

\* the adapter can reach its backend
Reachable == backend \in {"sqlite", "postgres"} \/ connected

\* the adapters whose add_contact and update_contact take a field mapping
TakesFields == backend \in {"mysql", "postgres", "mongodb"}

\* the step is a call of the named adapter operation
IsCall(op) == last'.op = op

\* the record an insert has just appended
Inserted == rows'[Len(rows')]

\* C3 as stated: in every state reached through add_contact, update_contact,
\* delete_contact, bulk_delete, add_column, remove_column, full_cleanup_db,
\* reset_table_structure, backup_database and restore_database every stored
\* record has a non-null identifier and no two records share one.
C3_AsStated ==
    \A i \in 1..Len(rows) :
        /\ rows[i].id # NoId
        /\ \A j \in 1..Len(rows) : j # i => rows[j].id # rows[i].id

\* how each adapter rejects a call that lacks the name: the validation error
\* of the adapters taking **fields, the fixed (name, phone, email) signature
\* of the file backend's adapter
MissingNameError(b) == IF b = "sqlite" THEN "TypeError" ELSE "ValueError"

UnknownFields(arg) ==
    DOMAIN arg \ (Range(get_table_columns) \cup {"id", "created_at", "updated_at"})

\* C5 as stated: add_contact given a name and a field that is no column
\* succeeds, the stored record does not carry that field and the column list
\* is what it was (stated here for the adapters that take a field mapping).
C5_AsStated ==
    [][ (/\ IsCall("add_contact")
         /\ TakesFields
         /\ Reachable
         /\ "name" \in DOMAIN last'.arg
         /\ UnknownFields(last'.arg) # {}) =>
            /\ last'.err = "none"
            /\ Len(rows') = Len(rows) + 1
            /\ UnknownFields(last'.arg) \cap Fields(Inserted) = {}
            /\ get_table_columns' = get_table_columns ]_vars

\* C6 as stated: on every adapter the created_at and updated_at of a record
\* add_contact has stored are never the values the caller passed.
C6_AsStated ==
    [][ (IsCall("add_contact") /\ last'.err = "none" /\ Len(rows') = Len(rows) + 1) =>
            \A k \in {"created_at", "updated_at"} :
                k \in Fields(Inserted) => Inserted[k] # ClientTs ]_vars

\* C7 as stated: update_contact never changes a record's id or created_at,
\* never stores an updated_at the caller passed, and changes nothing but the
\* given valid columns (and the backend's updated_at) of the addressed record.
C7_AsStated ==
    [][ (IsCall("update_contact") /\ TakesFields) =>
            /\ Len(rows') = Len(rows)
            /\ \A i \in 1..Len(rows) :
                 /\ rows'[i].id = rows[i].id
                 /\ ValueOf(rows'[i], "created_at") = ValueOf(rows[i], "created_at")
                 /\ ValueOf(rows'[i], "updated_at") = ClientTs
                        => ValueOf(rows[i], "updated_at") = ClientTs
                 /\ Fields(rows'[i]) \subseteq Fields(rows[i]) \cup {"updated_at"}
                 /\ rows[i].id # last'.id => rows'[i] = rows[i]
                 /\ \A k \in Fields(rows[i]) \ (DOMAIN last'.arg \cup {"updated_at"}) :
                        rows'[i][k] = rows[i][k] ]_vars

\* the columns update_contact may set
MutableColumns == Range(get_table_columns) \ {"id", "created_at", "updated_at"}

\* C8 as stated: update_contact given no field, only unknown fields or only
\* id / created_at / updated_at fails with the validation error and changes
\* nothing (stated here for the adapters that implement update_contact).
C8_AsStated ==
    [][ (/\ IsCall("update_contact")
         /\ TakesFields
         /\ Reachable
         /\ DOMAIN last'.arg \cap MutableColumns = {}) =>
            /\ last'.err = "ValueError"
            /\ rows' = rows ]_vars

\* the identifiers of the records that satisfy every condition of the filters
ConjunctiveIds(rs, filters) ==
    {rs[i].id : i \in {j \in 1..Len(rs) : MatchesAll(rs[j], filters)}}

\* C9 as stated: on every adapter advanced_search returns exactly the records
\* that satisfy all the given conditions (every record when none is given), so
\* the four adapters return the same identifiers for the same data.
C9_AsStated ==
    [][ (IsCall("advanced_search") /\ last'.err = "none") =>
            Range(last'.ret) = ConjunctiveIds(rows, last'.arg) ]_vars

\* C10 as stated: on every adapter bulk_update and bulk_delete given an empty
\* identifier list return 0, issue no backend call and leave the records
\* unchanged.
C10_AsStated ==
    [][ (/\ last'.op \in {"bulk_update", "bulk_delete"}
         /\ last'.arg = <<>>) =>
            /\ last'.err = "none"
            /\ last'.ret = 0
            /\ ~last'.touched
            /\ rows' = rows ]_vars

---------------------------------------------------------------------------
(* Properties of bulk update, cleanup and the schema manager *)

\* the records a bulk_update step has changed
ChangedIds == {rows[i].id : i \in {j \in 1..Len(rows) : rows'[j] # rows[j]}}

\* C11 as stated: bulk_update only accepts a field from {name, phone, email}:
\* for any other field (the identifier, a timestamp, or a custom column that
\* exists) it returns 0 and modifies no record; for an allowed field the count
\* is at most the number of distinct identifiers given and only records whose
\* identifier is in the list are changed.
C11_AsStated ==
    [][ (IsCall("bulk_update") /\ backend \in {"mysql", "postgres", "mongodb"}) =>
            /\ Len(rows') = Len(rows)
            /\ last'.field \notin BulkFields => (last'.ret = 0 /\ rows' = rows)
            /\ last'.field \in BulkFields =>
                  /\ last'.ret <= Cardinality(Range(last'.arg))
                  /\ ChangedIds \subseteq Range(last'.arg) ]_vars

\* C12 as stated: on every adapter, after any sequence of inserts and deletes,
\* a full_cleanup_db that returns true leaves the record list empty, keeps the
\* column set unchanged, and the next add_contact produces a contact whose
\* identifier is 1.
C12_AsStated ==
    [][ /\ (IsCall("full_cleanup_db") /\ last'.ret = TRUE) =>
              /\ rows' = <<>>
              /\ Range(get_table_columns') = Range(get_table_columns)
        /\ (/\ last.op = "full_cleanup_db" /\ last.ret = TRUE
            /\ IsCall("add_contact") /\ last'.err = "none") =>
              Inserted.id = 1 ]_vars

\* C13 as stated: reset_table_structure restores the base schema: on every
\* adapter, after it returns true the record set is empty, every custom column
\* is gone and the column list is exactly the six required columns; an adapter
\* that cannot do this returns false (the file adapter's inherited method
\* returns nothing and changes nothing).
C13_AsStated ==
    [][ IsCall("reset_table_structure") =>
            IF backend # "sqlite" /\ last'.ret = TRUE
            THEN /\ rows' = <<>>
                 /\ Range(get_table_columns') = Range(REQUIRED_COLUMNS)
            ELSE rows' = rows /\ columns' = columns ]_vars

\* the required columns the schema manager lists
RequiredPresent == Range(REQUIRED_COLUMNS) \cap Range(get_table_columns)

\* C14: a required column is never removable: for each of id, name, phone,
\* email, created_at, updated_at SchemaManager.remove_column returns false
\* without calling the adapter, so across any SchemaManager.add_column or
\* remove_column every required column that was present is still present.
C14_RequiredColumnsStay ==
    [][ /\ (IsCall("remove_column") /\ last'.arg \in Range(REQUIRED_COLUMNS)) =>
              /\ last'.ret = FALSE
              /\ ~last'.called
              /\ columns' = columns /\ rows' = rows
        /\ (last'.op \in {"add_column", "remove_column"}) =>
              RequiredPresent \subseteq RequiredPresent' ]_vars

\* a required column of a table that also has a custom column was refused
C14_Witness ==
    /\ last.op = "remove_column" /\ last.arg = "created_at" /\ last.ret = FALSE
    /\ backend = "postgres"
    /\ {"created_at", "nick"} \subseteq Range(get_table_columns)

\* a call the schema manager refused: false, no adapter call, nothing changed
Refused ==
    /\ last'.ret = FALSE
    /\ ~last'.called
    /\ columns' = columns /\ rows' = rows

\* C15: SchemaManager.add_column and remove_column reject schema conflicts
\* before any backend mutation and never raise: add_column returns false
\* without calling the adapter when the name is already a column (one the
\* schema manager lists) or is not a legal identifier; remove_column returns
\* false when the column is absent; any adapter or introspection exception
\* becomes a false return with the column set unchanged.
C15_ConflictsRefused ==
    [][ /\ last'.op \in {"add_column", "remove_column"} =>
              /\ last'.err = "none"
              /\ last'.ret \in BOOLEAN
              /\ last'.caught =>
                    /\ last'.ret = FALSE
                    /\ get_table_columns' = get_table_columns
        /\ (/\ IsCall("add_column")
            /\ \/ last'.arg \in Range(get_table_columns)
               \/ last'.arg \in NotIdentifiers) => Refused
        /\ (/\ IsCall("remove_column")
            /\ last'.arg \notin Range(get_table_columns)) => Refused ]_vars

\* a name that is no identifier was refused on a table that has records
C15_Witness ==
    /\ last.op = "add_column" /\ last.arg = "my col"
    /\ last.ret = FALSE /\ ~last.called
    /\ rows # <<>>

\* the entries of a list that are not timestamp columns, in the list's order
NotTimestamps(cols) == SelectSeq(cols, LAMBDA c : c \notin {"created_at", "updated_at"})

\* C16: get_table_columns() lists id first; get_display_columns() is a
\* permutation of get_table_columns() in which created_at and updated_at (when
\* present) come after every other column and the other columns keep their
\* relative order; when introspection returns nothing get_table_columns() is
\* the required-column list.
C16_ColumnOrder ==
    (last.op = "get_display_columns" /\ last.err = "none") =>
        LET cols == last.arg
            disp == last.ret
        IN  /\ cols[1] = "id"
            /\ Len(disp) = Len(cols)
            /\ \A c \in Range(cols) : Cardinality({i \in 1..Len(disp) : disp[i] = c})
                                       = Cardinality({i \in 1..Len(cols) : cols[i] = c})
            /\ \A i, j \in 1..Len(disp) :
                  (disp[i] \in {"created_at", "updated_at"}
                   /\ disp[j] \notin {"created_at", "updated_at"}) => j < i
            /\ NotTimestamps(disp) = NotTimestamps(cols)
            /\ ~TableExists => cols = REQUIRED_COLUMNS

\* the lists were read from a table whose timestamp column is not last
C16_Witness ==
    /\ last.op = "get_display_columns" /\ last.err = "none"
    /\ last.arg # last.ret
    /\ "nick" \in Range(last.ret)

\* C17: build_contact_tuple(get_contact_as_dict_raw(t)) = t for every tuple t
\* as long as the live column list; a shorter tuple maps its values to the
\* leading columns and the missing trailing columns to None; the mapping
\* always has exactly the live columns as keys.
C17_TupleRoundTrip ==
    last.op = "get_contact_as_dict_raw" =>
        LET t == last.arg
            d == last.dict
            cols == get_table_columns
        IN  /\ DOMAIN d = Range(cols)
            /\ Len(t) = Len(cols) => last.ret = t
            /\ \A i \in 1..Len(cols) :
                  IF i <= Len(t) THEN d[cols[i]] = t[i] ELSE d[cols[i]] = Null

\* a tuple shorter than a column list with a custom column was converted
C17_Witness ==
    /\ last.op = "get_contact_as_dict_raw"
    /\ 0 < Len(last.arg) /\ Len(last.arg) < Len(get_table_columns)
    /\ "nick" \in DOMAIN last.dict

\* a stored contact other than the excluded one holds the email, compared
\* trimmed and without regard to case
HeldByAnother(email, exclude_id) ==
    \E i \in 1..Len(rows) :
        /\ rows[i].id # exclude_id
        /\ ValueOf(rows[i], "email") \notin {Null, ""}
        /\ StripLower(ValueOf(rows[i], "email")) = StripLower(email)

\* C18 as stated: check_email_uniqueness(email, exclude_id) reports non-unique
\* exactly when some stored contact whose identifier differs from exclude_id
\* has the same email (compared trimmed and case-insensitively).
C18_AsStated ==
    last.op = "check_email_uniqueness" =>
        (last.ret = FALSE <=> HeldByAnother(last.arg, last.id))

\* C18, amended: the check never raises; it reports non-unique when reading
\* the contacts failed, and otherwise exactly when some stored contact whose
\* identifier differs from exclude_id has the same non-empty email (compared
\* trimmed and case-insensitively); a blank email is always reported unique.
C18_Uniqueness ==
    last.op = "check_email_uniqueness" =>
        /\ last.err = "none"
        /\ last.ret = FALSE <=>
              /\ StripLower(last.arg) # ""
              /\ last.caught \/ HeldByAnother(last.arg, last.id)
        /\ last.caught => backend \in {"mysql", "mongodb"} /\ ~connected

\* two contacts share an email up to case and blanks; checked for one of
\* them with its own identifier excluded, the email is reported taken
C18_Witness ==
    /\ last.op = "check_email_uniqueness" /\ last.ret = FALSE /\ ~last.caught
    /\ Len(rows) = 2
    /\ last.id = rows[1].id
    /\ last.arg = ValueOf(rows[1], "email")
    /\ ValueOf(rows[2], "email") # last.arg

\* the records an import step has appended
Imported == SubSeq(rows', Len(rows) + 1, Len(rows'))

\* the lines of a file whose Name cell holds a non-empty text
NamedLines(file) ==
    {i \in 1..Len(file.lines) :
        /\ file.lines[i] # <<>>
        /\ Get(RowDict(file.header, file.lines[i]), "Name") \notin {"", Null}}

\* C19 as stated: import_from_csv skips rows with an empty or missing Name and
\* rows that error, without aborting the import: after the call no stored
\* contact has an empty name that came from the file, and the returned count
\* equals the number of rows actually inserted, which equals the number of
\* rows with a non-empty Name that did not error (and so is no more than the
\* number of rows with a non-empty Name).
C19_AsStated ==
    [][ IsCall("import_from_csv") =>
            /\ last'.err = "none"
            /\ \A i \in 1..Len(Imported) : ValueOf(Imported[i], "name") \notin {"", Null}
            /\ last'.ret = Len(Imported)
            /\ last'.ret <= Cardinality(NamedLines(last'.arg)) ]_vars

\* name, phone and email of a record as CSV text
Text3(r) ==
    <<CsvText(ValueOf(r, "name")), CsvText(ValueOf(r, "phone")), CsvText(ValueOf(r, "email"))>>

\* the step imports the exported file into the emptied store
IsReimport ==
    /\ IsCall("import_from_csv")
    /\ csvFile.written
    /\ last'.arg = [header |-> csvFile.header, lines |-> csvFile.lines]
    /\ rows = <<>>

---------------------------------------------------------------------------
(* Properties of the preflight (SpecPreflight) *)

\* the step is the named call of the manager, the factory or the preflight
IsManagerCall(op) == mgrLast'.op = op

\* C21: _choose_db returns the explicit DB_TYPE override when the health map
\* records it healthy, otherwise the persisted last-used backend when that is
\* recorded healthy, otherwise sqlite; so the result is always a backend
\* recorded healthy or sqlite (with {sqlite: healthy, mysql: unhealthy}, no
\* override and no last-used row it is sqlite).
C21_Choice ==
    [][ IsManagerCall("_choose_db") =>
          LET h        == mgrLast'.health
              explicit == mgrLast'.explicit
              lastUsed == mgrLast'.lastUsed
              good(t)  == t \in DOMAIN h /\ h[t] = 1
              ret      == mgrLast'.ret
          IN  /\ (explicit # "" /\ good(explicit)) => ret = explicit
              /\ (~(explicit # "" /\ good(explicit)) /\ lastUsed # "none"
                    /\ good(lastUsed)) => ret = lastUsed
              /\ (~(explicit # "" /\ good(explicit))
                    /\ ~(lastUsed # "none" /\ good(lastUsed))) => ret = "sqlite"
              /\ (ret = "sqlite" \/ good(ret)) ]_vars

\* an unhealthy override is passed over for the healthy last-used backend
C21_Witness ==
    /\ mgrLast.op = "_choose_db"
    /\ mgrLast.explicit = "mysql" /\ envDbType = " mysql "
    /\ mgrLast.health = [t \in {"sqlite", "mysql", "mongodb"} |->
                            IF t = "mysql" THEN 0 ELSE 1]
    /\ mgrLast.lastUsed = "mongodb"
    /\ mgrLast.ret = "mongodb"

---------------------------------------------------------------------------
(* Properties of the Adapter Factory (SpecFactory) *)

\* the call passed a config the adapter constructors can read, or none
UsableConfig == mgrLast'.config \in {"None", "custom"}

\* the call returned an adapter of the class registered for the identifier
ReturnedRegistered ==
    /\ mgrLast'.escaped = "none"
    /\ mgrLast'.ret.cls = AdapterRegistry[mgrLast'.dbType]

\* C22: create_adapter fails with the unsupported-backend error (ValueError)
\* for every identifier that is not registered and constructs the registered
\* adapter, without probing it, for a registered one; create_with_test also
\* probes the new adapter, fails with ConnectionError exactly when
\* test_connection() answered false and returns the adapter otherwise.
C22_AsStated ==
    [][ /\ (IsManagerCall("create_adapter") /\ UsableConfig) =>
              /\ mgrLast'.dbType \notin RegisteredTypes =>
                    mgrLast'.escaped = "ValueError"
              /\ mgrLast'.dbType \in RegisteredTypes =>
                    (ReturnedRegistered /\ ~mgrLast'.probed)
        /\ (IsManagerCall("create_with_test") /\ UsableConfig) =>
              /\ mgrLast'.dbType \notin RegisteredTypes =>
                    mgrLast'.escaped = "ValueError"
              /\ mgrLast'.dbType \in RegisteredTypes =>
                    /\ mgrLast'.probed
                    /\ (mgrLast'.escaped = "ConnectionError") <=> ~mgrLast'.probeOk
                    /\ mgrLast'.probeOk => ReturnedRegistered ]_vars

\* the canonical identifier an alias stands for
Canonical(t) == CASE t = "postgresql" -> "postgres"
                  [] t = "mongo"      -> "mongodb"
                  [] OTHER            -> t

\* C23: for every identifier t with is_supported(t), the aliases postgresql
\* and mongo included, create_adapter(t) without an explicit config succeeds
\* and yields the class and the default config of the canonical identifier;
\* get_available_types() is exactly the four canonical identifiers.
C23_AsStated ==
    [][ /\ (IsManagerCall("create_adapter") /\ mgrLast'.config = "None"
              /\ is_supported(mgrLast'.dbType)) =>
              /\ mgrLast'.escaped = "none"
              /\ mgrLast'.ret.cls = AdapterRegistry[Canonical(mgrLast'.dbType)]
              /\ mgrLast'.ret.cfg =
                    get_database_config(Canonical(mgrLast'.dbType)).cfg
        /\ Range(get_available_types) = {"sqlite", "mysql", "postgres", "mongodb"}
        /\ Len(get_available_types) = 4 ]_vars

---------------------------------------------------------------------------
(* Properties of force_reconnect (SpecReconnect) *)

\* C24: force_reconnect leaves the current backend identifier unchanged,
\* replaces the cached adapter by a fresh one, never throws, and returns true
\* exactly when the probe of the fresh adapter succeeds: false when the probe
\* reports failure or the construction raises.
C24_AsStated ==
    [][ IsManagerCall("force_reconnect") =>
          /\ mgrDbType' = mgrDbType
          /\ mgrLast'.escaped = "none"
          /\ mgrLast'.constructErr = "none" =>
                (mgrAdapter' # NoAdapter /\ mgrAdapter'.serial = nextSerial')
          /\ mgrLast'.ret <=> mgrLast'.probeOk ]_vars

---------------------------------------------------------------------------
(* Properties of backup and restore (SpecRestore) *)

\* C25: whenever restore_database returns false the stored records are
\* exactly what they were before the call; in particular a missing backup
\* file is noticed before anything is deleted or overwritten.
C25_AsStated ==
    [][ IsCall("restore_database") =>
          /\ ~last'.found => (~last'.ret /\ rows' = rows)
          /\ ~last'.ret => rows' = rows ]_vars

\* C30: a restore_database that returns true leaves the store holding exactly
\* the records it held when backup_database was taken, whatever inserts,
\* updates, deletes and full cleanups came in between, and the add_contact
\* that follows succeeds with an identifier no restored record uses.
C30_AsStated ==
    [][ /\ (IsCall("restore_database") /\ Reachable /\ last'.ret) =>
              rows' = backupFile.rows
        /\ (/\ last.op = "restore_database" /\ last.ret /\ Reachable
            /\ IsCall("add_contact") /\ "name" \in DOMAIN last'.arg) =>
              /\ last'.err = "none"
              /\ Len(rows') = Len(rows) + 1
              /\ Inserted.id \notin Ids(rows) ]_vars

---------------------------------------------------------------------------
(* Properties of the legacy column removal (SpecStore) *)

\* the rebuild kept the table: columns without the removed one in their
\* order, as many rows, and every remaining value
RebuiltWithout(c) ==
    /\ ColNames(columns') = SelectSeq(ColNames(columns), LAMBDA n : n # c)
    /\ Len(rows') = Len(rows)
    /\ \A i \in 1..Len(rows) :
          \A k \in Fields(rows[i]) \ {c} :
              k \in Fields(rows'[i]) /\ rows'[i][k] = rows[i][k]

\* C26: when crud.remove_column(c) succeeds the column list is the previous
\* one without c in the same order, with the same rows and the same values in
\* the remaining columns; when the rebuild fails at any of its steps the
\* table, its columns and its rows are what they were and no shadow table
\* contacts_new is left behind to block a later remove_column.
C26_AsStated ==
    [][ IsCall("crud.remove_column") =>
          /\ last'.ret => RebuiltWithout(last'.arg)
          /\ ~last'.ret => (columns' = columns /\ rows' = rows /\ ~shadowTable') ]_vars

---------------------------------------------------------------------------
(* Properties of the exported file (SpecRoundTrip) *)

\* the text the file holds for column c of record r
FileText(r, c) == IF c = "id" THEN ToString(r.id) ELSE CsvText(ValueOf(r, c))

\* C27: in the file export_to_csv writes (the adapter whose header comes from
\* get_display_columns), every line has one value per header position and the
\* value at position p is the record's value for the column the header names
\* at p, also when a custom column was added after the timestamp columns.
C27_AsStated ==
    (backend = "postgres" /\ csvFile.written) =>
        \A i \in 1..Len(csvFile.lines) :
            /\ Len(csvFile.lines[i]) = Len(csvFile.header)
            /\ \A p \in 1..Len(csvFile.header) :
                  \E c \in Range(get_table_columns) :
                      /\ Title(c) = csvFile.header[p]
                      /\ csvFile.lines[i][p] = FileText(csvFile.contacts[i], c)

---------------------------------------------------------------------------
(* Properties of the start-up sequence (SpecPreflight) *)

\* C28: once run_preflight_and_choose_db has returned, the manager's current
\* backend identifier, the settings' default type, DB_TYPE and the persisted
\* last-used backend all equal the chosen backend, whatever the health
\* results and the manager's initial state, and the health store holds one
\* record for each of the four available backends.
C28_AsStated ==
    (mgrLast.op = "run_preflight" /\ mgrLast.escaped = "none") =>
        /\ mgrDbType = mgrLast.ret
        /\ settingsDefault = mgrLast.ret
        /\ envDbType = mgrLast.ret
        /\ lastDbType = mgrLast.ret
        /\ DOMAIN dbHealth = {"sqlite", "mysql", "postgres", "mongodb"}

---------------------------------------------------------------------------
(* Properties of added columns (SpecStore) *)

\* the positions of a tuple view_contacts() returns: the table's columns, or
\* the fields get_table_info() lists when the tuple is built (_doc_to_tuple)
TuplePositions == IF backend = "mongodb" THEN MongoTableInfo ELSE ColNames(columns)

\* C29: once SchemaManager.add_column(c) has returned true, c is listed by
\* get_table_columns() in the state the call returns in and in every later
\* state until remove_column(c) or reset_table_structure is called (stated
\* here up to the insert, update or delete that follows the call), whether or
\* not the store was empty when c was added; and every tuple of
\* view_contacts() has as many positions as get_table_columns() has columns.
C29_AsStated ==
    [][ /\ (IsCall("add_column") /\ last'.ret) =>
              last'.arg \in Range(get_table_columns')
        /\ (/\ last.op = "add_column" /\ last.ret
            /\ last'.op \in {"add_contact", "update_contact", "delete_contact"}) =>
              last.arg \in Range(get_table_columns')
        /\ rows' # <<>> => Len(TuplePositions') = Len(get_table_columns') ]_vars

=============================================================================
